---- MODULE Spec2Model ----
(***************************************************************************)
(* Model of parts of jedi: the operator/precedence evaluator               *)
(* (src/jedi/evaluate/precedence.py), the gradual-typing resolver          *)
(* (src/jedi/evaluate/gradual/conversion.py) and, of the compiled-object   *)
(* bridge (src/jedi/evaluate/compiled/context.py), the filter, the cache   *)
(* of compiled objects, the inference of names, the CheckAttribute         *)
(* descriptor, the subscript, iteration and call operations and the        *)
(* docstring parser; and the properties of Completion, CallSignature and   *)
(* Definition (src/jedi/api/classes.py).  Each component has its own       *)
(* variables and specification; the variables of the other components stay *)
(* as constructed.                                                         *)
(*                                                                         *)
(* In the evaluator a behaviour is one call of calculate, factor_calculate *)
(* or literals_to_types on operands drawn in Init.  Contexts are records;  *)
(* a ContextSet is a set of such records.  None and NO_CONTEXTS are both   *)
(* falsy and `x or NO_CONTEXTS` maps both to NO_CONTEXTS, so both are the  *)
(* empty set there.  Native values follow Python 3.                        *)
(***************************************************************************)
EXTENDS Integers, Sequences, FiniteSets, TLC

VARIABLES left_contexts, operator, right_contexts, result, evaluated,
          analysis, pc,
          world, stub_contexts, names, ignore_compiled, calls, new_names,
          conv_pc,
          access_handle, type_handle, filter_is_instance, filter_names,
          handle_calls, filter_pc,
          memoize_cache, objects, returns,
          name_memo, name_lookups, name_returns,
          checked_handle, accessed, outcome,
          compiled_handle, compiled_call, compiled_result,
          doc, doc_call, doc_result,
          definition, api_call, api_result

(* The operator/precedence evaluator. *)
precedenceVars == <<left_contexts, operator, right_contexts, result,
                    evaluated, analysis, pc>>

(* The gradual-typing resolver (src/jedi/evaluate/gradual/conversion.py). *)
conversionVars == <<world, stub_contexts, names, ignore_compiled, calls,
                    new_names, conv_pc>>

(* CompiledObjectFilter (src/jedi/evaluate/compiled/context.py). *)
filterVars == <<access_handle, type_handle, filter_is_instance, filter_names,
                handle_calls, filter_pc>>

(* The cache of create_cached_compiled_object. *)
cacheVars == <<memoize_cache, objects, returns>>

(* The memoized infer() of names. *)
nameVars == <<name_memo, name_lookups, name_returns>>

(* The CheckAttribute descriptor of CompiledObject. *)
attributeVars == <<checked_handle, accessed, outcome>>

(* The subscript, iteration and call operations of CompiledObject. *)
objectVars == <<compiled_handle, compiled_call, compiled_result>>

(* The docstring parser _parse_function_doc and get_param_names. *)
docVars == <<doc, doc_call, doc_result>>

(* Completion, CallSignature and Definition (src/jedi/api/classes.py). *)
apiVars == <<definition, api_call, api_result>>

vars == <<precedenceVars, conversionVars, filterVars, cacheVars, nameVars,
          attributeVars, objectVars, docVars, apiVars>>

(* A component that takes no part in a behaviour stays as constructed. *)
PrecedenceIdle ==
    /\ left_contexts = {}
    /\ right_contexts = {}
    /\ operator = "+"
    /\ result = {}
    /\ evaluated = {}
    /\ analysis = <<>>
    /\ pc = "idle"

ConversionIdle ==
    /\ world = <<>>
    /\ stub_contexts = {}
    /\ names = <<>>
    /\ ignore_compiled = FALSE
    /\ calls = <<>>
    /\ new_names = <<>>
    /\ conv_pc = "idle"

FilterIdle ==
    /\ access_handle = <<>>
    /\ type_handle = <<>>
    /\ filter_is_instance = FALSE
    /\ filter_names = <<>>
    /\ handle_calls = {}
    /\ filter_pc = "idle"

CacheIdle ==
    /\ memoize_cache = <<>>
    /\ objects = <<>>
    /\ returns = {}

NamesIdle ==
    /\ name_memo = <<>>
    /\ name_lookups = <<>>
    /\ name_returns = <<>>

AttributeIdle ==
    /\ checked_handle = <<>>
    /\ accessed = <<>>
    /\ outcome = <<>>

ObjectIdle ==
    /\ compiled_handle = <<>>
    /\ compiled_call = <<>>
    /\ compiled_result = <<>>

DocIdle ==
    /\ doc = <<>>
    /\ doc_call = <<>>
    /\ doc_result = <<>>

ApiIdle ==
    /\ definition = <<>>
    /\ api_call = <<>>
    /\ api_result = <<>>

(* Largest operand set drawn in Init. *)
MaxSet == 3

(***************************************************************************)
(* Native (Python) values held by a CompiledObject: .obj                   *)
(***************************************************************************)
PyInt(n) == [t |-> "int", n |-> n, s |-> <<>>]
PyBool(b) == [t |-> "bool", n |-> IF b THEN 1 ELSE 0, s |-> <<>>]
PyStr(s) == [t |-> "str", n |-> 0, s |-> s]
NoObj == [t |-> "", n |-> 0, s |-> <<>>]

(* The type of int + int, bool + bool, int + float, ... *)
NumType(a, b) == IF a.t = "float" \/ b.t = "float" THEN "float" ELSE "int"

(* Faulty variant: the operands of `+` swapped. *)
PyAdd_swapped(a, b) ==
    IF a.t = "str" THEN PyStr(b.s \o a.s)
    ELSE [t |-> NumType(a, b), n |-> b.n + a.n, s |-> <<>>]

PyAdd(a, b) ==
    IF a.t = "str" THEN PyStr(a.s \o b.s)
    ELSE [t |-> NumType(a, b), n |-> a.n + b.n, s |-> <<>>]

PySub(a, b) == [t |-> NumType(a, b), n |-> a.n - b.n, s |-> <<>>]

(* Faulty variant: the sign is kept. *)
PyNeg_kept(a) == [t |-> IF a.t = "float" THEN "float" ELSE "int", n |-> a.n, s |-> <<>>]

PyNeg(a) == [t |-> IF a.t = "float" THEN "float" ELSE "int", n |-> 0 - a.n, s |-> <<>>]

(* bool(obj) *)
PyTruth(a) == IF a.t = "str" THEN a.s # <<>> ELSE a.n # 0

(***************************************************************************)
(* Contexts                                                                *)
(***************************************************************************)
(* compiled.create(evaluator, obj): cached per native object. *)
create(obj) ==
    [cls |-> "CompiledObject", name |-> obj.t, obj |-> obj,
     array_type |-> "", arrays |-> <<>>, site |-> NoObj,
     truth |-> IF PyTruth(obj) THEN "True" ELSE "False"]

(* A sequence literal of the analysed source (an AbstractSequence); its    *)
(* length, hence its truth value, is not known.                            *)
SequenceContext(array_type) ==
    [cls |-> "Sequence", name |-> array_type, obj |-> NoObj,
     array_type |-> array_type, arrays |-> <<>>, site |-> NoObj, truth |-> "None"]

(* iterable.MergedArray(evaluator, arrays) *)
MergedArray(arrays) ==
    [cls |-> "MergedArray", name |-> arrays[Len(arrays)].array_type, obj |-> NoObj,
     array_type |-> arrays[Len(arrays)].array_type, arrays |-> arrays,
     site |-> NoObj, truth |-> "None"]

(* instance.CompiledInstance of the built-in class `name`; `site` tells     *)
(* apart the nodes made by separate instantiations.                        *)
CompiledInstance(name, site) ==
    [cls |-> "CompiledInstance", name |-> name, obj |-> NoObj,
     array_type |-> "", arrays |-> <<>>, site |-> site, truth |-> "True"]

NO_CONTEXTS == {}

str_a == <<97>>
str_b == <<98>>

Universe ==
    { create(PyInt(0)), create(PyInt(3)), create(PyInt(4)),
      create(PyStr(str_a)), create(PyStr(str_b)),
      SequenceContext("tuple"), SequenceContext("list"),
      CompiledInstance("int", PyStr(<<>>)) }

ContextSets == {S \in SUBSET Universe : Cardinality(S) <= MaxSet}

COMPARISON_OPERATORS == {"==", "!=", "is", "is not", "<", "<=", ">", ">="}

(* "/" stands for the operators precedence.py has no rule for. *)
BinaryOperators == {"*", "+", "-", "%", "in", "/"} \cup COMPARISON_OPERATORS

FactorOperators == {"-", "+", "~", "not"}

(* The iteration orders of a set. *)
Orders(S) ==
    {q \in [1..Cardinality(S) -> S] :
        \A i, j \in 1..Cardinality(S) : i # j => q[i] # q[j]}

Range(q) == {q[i] : i \in 1..Len(q)}

(***************************************************************************)
(* Type tests                                                              *)
(***************************************************************************)
IsCompiledObject(obj) == obj.cls = "CompiledObject"

IsAbstractSequence(obj) == obj.cls \in {"Sequence", "MergedArray"}

_is_number(obj) == IsCompiledObject(obj) /\ obj.obj.t \in {"int", "float", "bool"}

is_string(obj) == IsCompiledObject(obj) /\ obj.obj.t = "str"

(* Faulty variant: strings are not taken for literals. *)
is_literal_numbers_only(obj) == _is_number(obj)

is_literal(obj) == _is_number(obj) \/ is_string(obj)

_is_tuple(obj) == IsAbstractSequence(obj) /\ obj.array_type = "tuple"

_is_list(obj) == IsAbstractSequence(obj) /\ obj.array_type = "list"

(* "True", "False" or "None" (unknown). *)
py__bool__(typ) ==
    IF IsCompiledObject(typ)
    THEN (IF PyTruth(typ.obj) THEN "True" ELSE "False")
    ELSE typ.truth

(***************************************************************************)
(* literals_to_types                                                       *)
(***************************************************************************)
(* builtin_from_name(evaluator, name).execute_evaluated(): a new instance. *)
execute_evaluated(name, site) == {CompiledInstance(name, site)}

(* Faulty variant: the literals are kept as they are. *)
literals_to_types_unwidened(contexts) == UNION { {typ} : typ \in contexts }

literals_to_types(contexts) ==
    UNION { IF is_literal(typ)
            THEN execute_evaluated(typ.name, typ.obj)
            ELSE {typ} : typ \in contexts }

(***************************************************************************)
(* Native comparison: "True", "False" or "TypeError"                       *)
(***************************************************************************)
RECURSIVE SeqLess(_, _)
SeqLess(a, b) ==
    IF b = <<>> THEN FALSE
    ELSE IF a = <<>> THEN TRUE
    ELSE IF Head(a) # Head(b) THEN Head(a) < Head(b)
    ELSE SeqLess(Tail(a), Tail(b))

IsNum(v) == v.t \in {"int", "float", "bool"}

PyEq(a, b) ==
    IF IsNum(a) /\ IsNum(b) THEN a.n = b.n
    ELSE IF a.t = "str" /\ b.t = "str" THEN a.s = b.s
    ELSE a = b

PyLess(a, b) == IF a.t = "str" THEN SeqLess(a.s, b.s) ELSE a.n < b.n

Ordered(a, b) == (IsNum(a) /\ IsNum(b)) \/ (a.t = "str" /\ b.t = "str")

Bool(b) == IF b THEN "True" ELSE "False"

(* operation(left.obj, right.obj); small ints and short strings are        *)
(* interned, so `is` is sameness of type and value.                        *)
NativeCompare(op, a, b) ==
    CASE op = "==" -> Bool(PyEq(a, b))
      [] op = "!=" -> Bool(~PyEq(a, b))
      [] op = "is" -> Bool(a = b)
      [] op = "is not" -> Bool(a # b)
      [] op \in {"<", "<=", ">", ">="} ->
            IF ~Ordered(a, b) THEN "TypeError"
            ELSE CASE op = "<" -> Bool(PyLess(a, b))
                   [] op = "<=" -> Bool(~PyLess(b, a))
                   [] op = ">" -> Bool(PyLess(b, a))
                   [] op = ">=" -> Bool(~PyLess(a, b))

(* operation(left, right) on two context objects, which define neither     *)
(* __eq__ nor an ordering.                                                 *)
ContextCompare(op, left, right) ==
    CASE op \in {"==", "is"} -> Bool(left = right)
      [] op \in {"!=", "is not"} -> Bool(left # right)
      [] op \in {"<", "<=", ">", ">="} -> "TypeError"

(***************************************************************************)
(* _element_calculate                                                      *)
(***************************************************************************)
Diagnostic(op, left, right) ==
    [name |-> "type-error-operation", node |-> op, message |-> <<left, right>>]

check(obj) == obj.cls = "CompiledInstance" /\ obj.name \in {"int", "float"}

(* Faulty variant: `==` for `!=` between l_is_num and r_is_num. *)
StaticAnalysis_same(left, op, right) ==
    [contexts |-> {left, right},
     added |-> IF /\ op \in {"+", "-"}
                  /\ _is_number(left) = _is_number(right)
                  /\ ~(check(left) \/ check(right))
               THEN <<Diagnostic(op, left, right)>>
               ELSE <<>>]

(* Faulty variant: literals of any kind, not only numbers, are told apart. *)
StaticAnalysis_literal(left, op, right) ==
    [contexts |-> {left, right},
     added |-> IF /\ op \in {"+", "-"}
                  /\ is_literal(left) # is_literal(right)
                  /\ ~(check(left) \/ check(right))
               THEN <<Diagnostic(op, left, right)>>
               ELSE <<>>]

(* The end of _element_calculate, reached when no rule returned. *)
StaticAnalysis(left, op, right) ==
    [contexts |-> {left, right},
     added |-> IF /\ op \in {"+", "-"}
                  /\ _is_number(left) # _is_number(right)
                  /\ ~(check(left) \/ check(right))
               THEN <<Diagnostic(op, left, right)>>
               ELSE <<>>]

Return(contexts) == [contexts |-> contexts, added |-> <<>>]

(* Faulty variant: the operands are compared without unwrapping their values. *)
Comparison_wrapped(left, op, right) ==
    LET res == ContextCompare(op, left, right)
    IN  IF res = "TypeError"
        THEN [contexts |-> {create(PyBool(TRUE)), create(PyBool(FALSE))}, added |-> <<>>]
        ELSE [contexts |-> {create(PyBool(res = "True"))}, added |-> <<>>]

Comparison(left, op, right) ==
    LET res == IF IsCompiledObject(left) /\ IsCompiledObject(right)
               THEN NativeCompare(op, left.obj, right.obj)
               ELSE ContextCompare(op, left, right)
    IN  IF res = "TypeError"
        THEN Return({create(PyBool(TRUE)), create(PyBool(FALSE))})
        ELSE Return({create(PyBool(res = "True"))})

(* Faulty variant: the right operand is looked at first. *)
MulRule_right_first(left, right) ==
    IF IsAbstractSequence(right) \/ is_string(right) THEN Return({right})
    ELSE IF IsAbstractSequence(left) \/ is_string(left) THEN Return({left})
    ELSE StaticAnalysis(left, "*", right)

(* operator == '*': for iterables, ignore * operations *)
MulRule(left, right) ==
    IF IsAbstractSequence(left) \/ is_string(left) THEN Return({left})
    ELSE IF IsAbstractSequence(right) \/ is_string(right) THEN Return({right})
    ELSE StaticAnalysis(left, "*", right)

(* operator == '+' *)
AddRule(left, right) ==
    IF (_is_number(left) /\ _is_number(right)) \/ (is_string(left) /\ is_string(right))
    THEN Return({create(PyAdd(left.obj, right.obj))})
    ELSE IF (_is_tuple(left) /\ _is_tuple(right)) \/ (_is_list(left) /\ _is_list(right))
    THEN Return({MergedArray(<<left, right>>)})
    ELSE StaticAnalysis(left, "+", right)

(* operator == '-' *)
SubRule(left, right) ==
    IF _is_number(left) /\ _is_number(right)
    THEN Return({create(PySub(left.obj, right.obj))})
    ELSE StaticAnalysis(left, "-", right)

(* operator == '%': the left type typically remains *)
ModRule(left, right) == Return({left})

(* Faulty variant: no rule for `in`. *)
InRule_missing(left, right) == StaticAnalysis(left, "in", right)

(* operator == 'in' *)
InRule(left, right) == Return(NO_CONTEXTS)

_element_calculate(left, op, right) ==
    CASE op = "*" -> MulRule(left, right)
      [] op = "+" -> AddRule(left, right)
      [] op = "-" -> SubRule(left, right)
      [] op = "%" -> ModRule(left, right)
      [] op \in COMPARISON_OPERATORS -> Comparison(left, op, right)
      [] op = "in" -> InRule(left, right)
      [] OTHER -> StaticAnalysis(left, op, right)

(***************************************************************************)
(* calculate                                                               *)
(***************************************************************************)
(* The pairs of the nested loop `for left in .. for right in ..`. *)
Pairs(lefts, rights) ==
    [k \in 1..(Len(lefts) * Len(rights)) |->
        <<lefts[((k - 1) \div Len(rights)) + 1], rights[((k - 1) % Len(rights)) + 1]>>]

RECURSIVE Added(_, _)
Added(pairs, op) ==
    IF pairs = <<>> THEN <<>>
    ELSE _element_calculate(Head(pairs)[1], op, Head(pairs)[2]).added
         \o Added(Tail(pairs), op)

(* The pairwise combination is given up above this many pairs. *)
MaxPairs == 6

(* Faulty variant: the pairwise combination is given up at MaxPairs pairs already. *)
calculate_early(left, op, right) ==
    IF left = {} \/ right = {}
    THEN {[contexts |-> literals_to_types(left \cup right),
           evaluated |-> {}, added |-> <<>>]}
    ELSE IF Cardinality(left) * Cardinality(right) >= MaxPairs
    THEN {[contexts |-> literals_to_types(left \cup right),
           evaluated |-> {}, added |-> <<>>]}
    ELSE {[contexts |-> UNION {_element_calculate(p[1], op, p[2]).contexts :
                                  p \in Range(Pairs(lefts, rights))},
           evaluated |-> Range(Pairs(lefts, rights)),
           added |-> Added(Pairs(lefts, rights), op)] :
              lefts \in Orders(left), rights \in Orders(right)}

(* Every outcome of calculate: one per iteration order of the operand     *)
(* sets, which are iterated only when the pairs are combined.              *)
calculate(left, op, right) ==
    IF left = {} \/ right = {}
    THEN {[contexts |-> literals_to_types(left \cup right),
           evaluated |-> {}, added |-> <<>>]}
    ELSE IF Cardinality(left) * Cardinality(right) > MaxPairs
    THEN {[contexts |-> literals_to_types(left \cup right),
           evaluated |-> {}, added |-> <<>>]}
    ELSE {[contexts |-> UNION {_element_calculate(p[1], op, p[2]).contexts :
                                  p \in Range(Pairs(lefts, rights))},
           evaluated |-> Range(Pairs(lefts, rights)),
           added |-> Added(Pairs(lefts, rights), op)] :
              lefts \in Orders(left), rights \in Orders(right)}

(***************************************************************************)
(* factor_calculate                                                        *)
(***************************************************************************)
(* What the generator yields for the operands in the order `types`; it     *)
(* stops at the first operand of unknown truth value.                      *)
RECURSIVE FactorYield(_, _)
FactorYield(types, op) ==
    IF types = <<>> THEN NO_CONTEXTS
    ELSE LET typ == Head(types)
             rest == FactorYield(Tail(types), op)
         IN  IF op = "-"
             THEN (IF _is_number(typ) THEN {create(PyNeg(typ.obj))} ELSE {}) \cup rest
             ELSE IF op = "not"
             THEN (IF py__bool__(typ) = "None" THEN NO_CONTEXTS
                   ELSE {create(PyBool(py__bool__(typ) # "True"))} \cup rest)
             ELSE {typ} \cup rest

(* Every outcome of factor_calculate: one per iteration order of `types`. *)
factor_calculate(types, op) == {FactorYield(order, op) : order \in Orders(types)}

(***************************************************************************)
(* The state machine                                                       *)
(***************************************************************************)
Init ==
    /\ left_contexts \in ContextSets
    /\ right_contexts \in ContextSets
    /\ operator \in BinaryOperators \cup FactorOperators
    /\ result = NO_CONTEXTS
    /\ evaluated = {}
    /\ analysis = <<>>
    /\ pc = "start"
    /\ ConversionIdle /\ FilterIdle /\ CacheIdle /\ NamesIdle /\ AttributeIdle
    /\ ObjectIdle /\ DocIdle /\ ApiIdle

Calculate ==
    /\ pc = "start"
    /\ operator \in BinaryOperators
    /\ \E r \in calculate(left_contexts, operator, right_contexts) :
          /\ result' = r.contexts
          /\ evaluated' = r.evaluated
          /\ analysis' = analysis \o r.added
    /\ pc' = "calculate"
    /\ UNCHANGED <<left_contexts, operator, right_contexts>>
    /\ UNCHANGED <<conversionVars, filterVars, cacheVars, nameVars, attributeVars,
                   objectVars, docVars, apiVars>>

FactorCalculate ==
    /\ pc = "start"
    /\ operator \in FactorOperators
    /\ result' \in factor_calculate(left_contexts, operator)
    /\ pc' = "factor_calculate"
    /\ UNCHANGED <<left_contexts, operator, right_contexts, evaluated, analysis>>
    /\ UNCHANGED <<conversionVars, filterVars, cacheVars, nameVars, attributeVars,
                   objectVars, docVars, apiVars>>

LiteralsToTypes ==
    /\ pc = "start"
    /\ result' = literals_to_types(left_contexts)
    /\ pc' = "literals_to_types"
    /\ UNCHANGED <<left_contexts, operator, right_contexts, evaluated, analysis>>
    /\ UNCHANGED <<conversionVars, filterVars, cacheVars, nameVars, attributeVars,
                   objectVars, docVars, apiVars>>

Next == Calculate \/ FactorCalculate \/ LiteralsToTypes

Spec == Init /\ [][Next]_vars

(***************************************************************************)
(* Properties                                                              *)
(***************************************************************************)
Product == Cardinality(left_contexts) * Cardinality(right_contexts)

BothNonEmpty == left_contexts # {} /\ right_contexts # {}

Combined == pc = "calculate" /\ BothNonEmpty /\ Product <= 6

(* calculate was applied to the single pair (l, r). *)
SinglePair(l, r) ==
    pc = "calculate" /\ left_contexts = {l} /\ right_contexts = {r}

IntLit(n) == create(PyInt(n))
StrLit(s) == create(PyStr(s))
BoolLit(b) == create(PyBool(b))

NumberLit(c) == c.cls = "CompiledObject" /\ c.obj.t \in {"int", "float", "bool"}
StringLit(c) == c.cls = "CompiledObject" /\ c.obj.t = "str"
NumericInstance(c) == c.cls = "CompiledInstance" /\ c.name \in {"int", "float"}

(* The instance a literal is widened to. *)
Widened(c) == CompiledInstance(c.obj.t, c.obj)

WidenedSet(S) ==
    {c \in S : ~(NumberLit(c) \/ StringLit(c))}
        \cup {Widened(c) : c \in {d \in S : NumberLit(d) \/ StringLit(d)}}

TypeErrors == {i \in 1..Len(analysis) : analysis[i].name = "type-error-operation"}

(* C1: with both operand sets non-empty, above 6 pairs calculate returns    *)
(* literals_to_types(left | right), evaluates no pair and emits no           *)
(* diagnostic; up to 6 pairs (6 included) it returns the union of            *)
(* _element_calculate over every pair.                                       *)
C1_CostBound ==
    (pc = "calculate" /\ BothNonEmpty) =>
        IF Product > 6
        THEN /\ result = literals_to_types(left_contexts \cup right_contexts)
             /\ evaluated = {}
             /\ analysis = <<>>
        ELSE /\ result = UNION {_element_calculate(l, operator, r).contexts :
                                   l \in left_contexts, r \in right_contexts}
             /\ evaluated = left_contexts \X right_contexts

C1_Witness ==
    /\ pc = "calculate"
    /\ Cardinality(left_contexts) = 3 /\ Cardinality(right_contexts) = 3
    /\ operator = "+"
    /\ IntLit(3) \in left_contexts /\ IntLit(4) \in right_contexts
    /\ IntLit(7) \notin result
    /\ Widened(IntLit(3)) \in result

(* C2: if either operand set is empty, for every operator the result is the *)
(* widened union of the two operand sets; no pair is evaluated and no        *)
(* diagnostic is emitted.                                                    *)
C2_EmptyOperand ==
    (pc = "calculate" /\ ~BothNonEmpty) =>
        /\ result = WidenedSet(left_contexts \cup right_contexts)
        /\ evaluated = {}
        /\ analysis = <<>>

C2_Witness ==
    /\ pc = "calculate"
    /\ left_contexts = {}
    /\ right_contexts = {IntLit(3), SequenceContext("list")}
    /\ operator = "+"
    /\ result = {Widened(IntLit(3)), SequenceContext("list")}

(* C3: for '+', two literal numbers give one literal, their sum; two        *)
(* literal strings give one literal, left followed by right; two tuples or   *)
(* two lists give one merged-sequence marker over (left, right).             *)
C3_Plus ==
    \A l \in left_contexts, r \in right_contexts :
        (Combined /\ operator = "+") =>
            /\ (NumberLit(l) /\ NumberLit(r)) =>
                  /\ IntLit(l.obj.n + r.obj.n) \in result
                  /\ SinglePair(l, r) => result = {IntLit(l.obj.n + r.obj.n)}
            /\ (StringLit(l) /\ StringLit(r)) =>
                  /\ StrLit(l.obj.s \o r.obj.s) \in result
                  /\ SinglePair(l, r) => result = {StrLit(l.obj.s \o r.obj.s)}
            /\ (l.cls = "Sequence" /\ r.cls = "Sequence" /\ l.array_type = r.array_type) =>
                  /\ MergedArray(<<l, r>>) \in result
                  /\ SinglePair(l, r) => result = {MergedArray(<<l, r>>)}

C3_Witness ==
    /\ SinglePair(IntLit(3), IntLit(4))
    /\ operator = "+"
    /\ result = {IntLit(7)}

(* C4: a literal number '+' a literal string, in either order, returns the  *)
(* two untouched operands and adds exactly one type-error-operation          *)
(* diagnostic to the analysis sink.                                          *)
C4_NumberPlusString ==
    \A l \in left_contexts, r \in right_contexts :
        (/\ SinglePair(l, r)
         /\ operator = "+"
         /\ \/ NumberLit(l) /\ StringLit(r)
            \/ StringLit(l) /\ NumberLit(r)) =>
            /\ result = {l, r}
            /\ Len(analysis) = 1
            /\ analysis[1].name = "type-error-operation"

C4_Witness ==
    /\ SinglePair(IntLit(3), StrLit(str_b))
    /\ operator = "+"
    /\ result = {IntLit(3), StrLit(str_b)}
    /\ Len(analysis) = 1

SeqOrStr(c) == c.cls \in {"Sequence", "MergedArray"} \/ StringLit(c)

SameKindSequences(l, r) ==
    /\ l.cls \in {"Sequence", "MergedArray"} /\ r.cls \in {"Sequence", "MergedArray"}
    /\ l.array_type = r.array_type /\ l.array_type \in {"tuple", "list"}

(* No pair-wise rule of _element_calculate produces a result for (l, op, r). *)
NoRule(l, op, r) ==
    \/ op = "*" /\ ~SeqOrStr(l) /\ ~SeqOrStr(r)
    \/ /\ op = "+"
       /\ ~(NumberLit(l) /\ NumberLit(r))
       /\ ~(StringLit(l) /\ StringLit(r))
       /\ ~SameKindSequences(l, r)
    \/ op = "-" /\ ~(NumberLit(l) /\ NumberLit(r))
    \/ op \notin {"*", "+", "-", "%", "in", "==", "!=", "is", "is not", "<", "<=", ">", ">="}

NoNumericInstance(l, r) == ~NumericInstance(l) /\ ~NumericInstance(r)

OneLiteral(l, r) == (NumberLit(l) \/ StringLit(l)) # (NumberLit(r) \/ StringLit(r))

(* C5 as stated: whenever no pair-wise rule produced a result, or exactly   *)
(* one side is a numeric or string literal (and neither side is an int or    *)
(* float instance), the diagnostic is emitted and {left, right} returned.    *)
C5_Original ==
    \A l \in left_contexts, r \in right_contexts :
        (/\ SinglePair(l, r)
         /\ NoRule(l, operator, r) \/ (OneLiteral(l, r) /\ NoNumericInstance(l, r))) =>
            /\ result = {l, r}
            /\ Cardinality(TypeErrors) = 1

(* C5 amended: where no pair-wise rule produced a result the untouched      *)
(* operands {left, right} are returned; the diagnostic is emitted exactly    *)
(* when, in addition, the operator is '+' or '-', exactly one side is a      *)
(* literal number and neither side is an int or float instance.              *)
C5_Amended ==
    \A l \in left_contexts, r \in right_contexts :
        SinglePair(l, r) =>
            /\ NoRule(l, operator, r) => result = {l, r}
            /\ TypeErrors = 1..Len(analysis)
            /\ Len(analysis) =
                  IF /\ NoRule(l, operator, r)
                     /\ operator \in {"+", "-"}
                     /\ NumberLit(l) # NumberLit(r)
                     /\ NoNumericInstance(l, r)
                  THEN 1 ELSE 0

C5_Witness ==
    /\ SinglePair(StrLit(str_a), SequenceContext("list"))
    /\ operator = "+"
    /\ result = {StrLit(str_a), SequenceContext("list")}
    /\ analysis = <<>>

Booleans == {BoolLit(TRUE), BoolLit(FALSE)}

(* The native comparison of two literal values of the same kind. *)
SameKindCompare(op, a, b) ==
    LET x == IF a.t = "str" THEN a.s[1] ELSE a.n
        y == IF b.t = "str" THEN b.s[1] ELSE b.n
    IN  CASE op \in {"==", "is"} -> x = y
          [] op \in {"!=", "is not"} -> x # y
          [] op = "<" -> x < y
          [] op = "<=" -> x <= y
          [] op = ">" -> x > y
          [] op = ">=" -> x >= y

(* C6: a comparison of two literals yields one boolean literal, the native  *)
(* comparison of their values, or {True, False} where the native comparison  *)
(* raises a type error; a comparison never yields a non-boolean context and  *)
(* emits no diagnostic.                                                      *)
C6_Comparison ==
    \A l \in left_contexts, r \in right_contexts :
        (Combined /\ operator \in COMPARISON_OPERATORS) =>
            /\ result \subseteq Booleans
            /\ result # {}
            /\ analysis = <<>>
            /\ (/\ SinglePair(l, r)
                /\ NumberLit(l) \/ StringLit(l)
                /\ NumberLit(r) \/ StringLit(r)) =>
                  IF NumberLit(l) = NumberLit(r)
                  THEN result = {BoolLit(SameKindCompare(operator, l.obj, r.obj))}
                  ELSE IF operator \in {"==", "is"} THEN result = {BoolLit(FALSE)}
                  ELSE IF operator \in {"!=", "is not"} THEN result = {BoolLit(TRUE)}
                  ELSE result = Booleans

C6_Witness ==
    /\ SinglePair(IntLit(3), StrLit(str_a))
    /\ operator = "<"
    /\ result = Booleans

(* C7 as stated: 'in' yields the empty set for all non-empty operand sets,  *)
(* whatever their sizes.                                                     *)
C7_Original ==
    (pc = "calculate" /\ BothNonEmpty /\ operator = "in") => result = {}

(* C7 amended: 'in' yields the empty set for all non-empty operand sets of  *)
(* at most 6 pairs; above 6 pairs the result is the widened union of the     *)
(* operands, which is not empty.                                             *)
C7_Amended ==
    (pc = "calculate" /\ BothNonEmpty /\ operator = "in") =>
        IF Product <= 6
        THEN result = {}
        ELSE result = WidenedSet(left_contexts \cup right_contexts) /\ result # {}

C7_Witness ==
    /\ pc = "calculate"
    /\ operator = "in"
    /\ Cardinality(left_contexts) = 2 /\ Cardinality(right_contexts) = 3
    /\ result = {}

(* The truth value of an operand, where it is known. *)
TruthKnown(c) == c.cls = "CompiledObject" \/ c.truth # "None"

TruthOf(c) ==
    IF c.cls = "CompiledObject"
    THEN (IF c.obj.t = "str" THEN c.obj.s # <<>> ELSE c.obj.n # 0)
    ELSE c.truth = "True"

(* C8: 'not' yields, for every operand whose truth value is known, the      *)
(* literal of the negated value, and nothing for an operand of unknown       *)
(* truth value, whatever the order in which the operands are iterated.       *)
C8_Not ==
    (pc = "factor_calculate" /\ operator = "not") =>
        result = {BoolLit(~TruthOf(c)) : c \in {d \in left_contexts : TruthKnown(d)}}

(* C9: unary '-' maps every literal number n of the operand set to the      *)
(* literal -n; unary '+' and '~' return the operand set unchanged.           *)
C9_MinusPlusInvert ==
    pc = "factor_calculate" =>
        /\ operator = "-" =>
              result = {IntLit(0 - c.obj.n) : c \in {d \in left_contexts : NumberLit(d)}}
        /\ operator \in {"+", "~"} => result = left_contexts

C9_Witness ==
    /\ pc = "factor_calculate"
    /\ operator = "-"
    /\ left_contexts = {IntLit(3), IntLit(4), StrLit(str_a)}
    /\ result = {IntLit(0 - 3), IntLit(0 - 4)}

(* C10: literals_to_types(S) is the union, over the members of S, of an     *)
(* instance of the built-in class named after the literal's type for each    *)
(* literal, and of the member itself for each non-literal; the empty set     *)
(* maps to the empty set.                                                    *)
C10_LiteralsToTypes ==
    pc = "literals_to_types" =>
        /\ result = WidenedSet(left_contexts)
        /\ \A c \in left_contexts :
              IF NumberLit(c) \/ StringLit(c)
              THEN \E i \in result : i.cls = "CompiledInstance" /\ i.name = c.obj.t
              ELSE c \in result
        /\ left_contexts = {} => result = {}

C10_Witness ==
    /\ pc = "literals_to_types"
    /\ left_contexts = {IntLit(3), StrLit(str_a), SequenceContext("tuple")}
    /\ result = {CompiledInstance("int", PyInt(3)), CompiledInstance("str", PyStr(str_a)),
                 SequenceContext("tuple")}

(* C11: for '*', a left operand that is a sequence or a literal string is   *)
(* the result, whatever the right operand is; otherwise a right operand      *)
(* that is a sequence or a literal string is the result; no diagnostic is    *)
(* emitted.                                                                  *)
C11_Times ==
    \A l \in left_contexts, r \in right_contexts :
        (SinglePair(l, r) /\ operator = "*") =>
            /\ SeqOrStr(l) => result = {l}
            /\ (~SeqOrStr(l) /\ SeqOrStr(r)) => result = {r}
            /\ analysis = <<>>

C11_Witness ==
    /\ SinglePair(StrLit(str_a), SequenceContext("list"))
    /\ operator = "*"
    /\ result = {StrLit(str_a)}
    /\ analysis = <<>>

(***************************************************************************)
(* The gradual-typing resolver (src/jedi/evaluate/gradual/conversion.py).  *)
(*                                                                         *)
(* A context is a record: the side and name of its root module, its        *)
(* qualified names (known is FALSE where get_qualified_names() is None),   *)
(* its kind and whether it is compiled.  A name is the same record with    *)
(* kind "name".  The world is what the collaborators report: the actual    *)
(* companions of the stub module "m", what the actual module binds to      *)
(* "C" (a class, a function, a class D re-exported from module "impl", or  *)
(* nothing), whether the actual class has the method "f", and which stub   *)
(* modules can be loaded.  The stub module "m" declares the class C with   *)
(* the method f and the function g.                                        *)
(***************************************************************************)
(* Largest set of input contexts. *)
MaxContexts == 2

(* Longest list of input names. *)
MaxNames == 2

(* Longest chain of conversions, each applied to a result of the last. *)
MaxCalls == 2

ConvContext(side, module, qualified_names, kind, compiled) ==
    [side |-> side, module |-> module, qualified_names |-> qualified_names,
     known |-> TRUE, kind |-> kind, compiled |-> compiled]

(* A context defined in a function body has no qualified names. *)
LocalContext(side, kind) ==
    [side |-> side, module |-> "m", qualified_names |-> <<>>,
     known |-> FALSE, kind |-> kind, compiled |-> FALSE]

Worlds ==
    [companions : SUBSET {"source", "compiled"},
     actual_C   : {"absent", "class", "function", "alias"},
     actual_f   : {"absent", "function"},
     stub_m     : BOOLEAN,
     stub_impl  : BOOLEAN]

get_root_context(c) ==
    [c EXCEPT !.qualified_names = <<>>, !.known = TRUE, !.kind = "module"]

is_stub(c) == c.side = "stub"

is_instance(c) == c.kind = "instance"

is_class(c) == c.kind = "class"

is_bound_method(c) == c.kind = "bound_method"

is_compiled(c) == c.compiled

py__class__(c) == [c EXCEPT !.kind = "class"]

(* Executing a class gives an instance of it. *)
class_execute_evaluated(c) == {[c EXCEPT !.kind = "instance"]}

(* The name of a context. *)
name(c) == [c EXCEPT !.kind = "name"]

(* stub_module.non_stub_context_set: the side table from a stub module to  *)
(* the actual modules it describes.                                        *)
non_stub_context_set(stub_module) ==
    IF stub_module.module = "m"
    THEN {ConvContext("actual", "m", <<>>, "module", k = "compiled") :
              k \in world.companions}
    ELSE {ConvContext("actual", stub_module.module, <<>>, "module", FALSE)}

(* Context.py__getattribute__ of one context. *)
context_py__getattribute__(c, attr) ==
    LET child(kind) ==
            {[c EXCEPT !.qualified_names = Append(c.qualified_names, attr),
                       !.kind = kind]}
    IN  IF ~c.known THEN {}
        ELSE IF c.kind = "module" /\ c.module = "m" /\ attr = "g"
        THEN child("function")
        ELSE IF c.kind = "module" /\ c.module = "m" /\ attr = "C"
        THEN IF is_stub(c) \/ world.actual_C = "class" THEN child("class")
             ELSE IF world.actual_C = "function" THEN child("function")
             ELSE IF world.actual_C = "alias"
             THEN {ConvContext("actual", "impl", <<"D">>, "class", FALSE)}
             ELSE {}
        ELSE IF c.kind = "module" /\ c.module = "impl" /\ attr = "D"
        THEN child("class")
        ELSE IF c.kind \in {"class", "instance"} /\ attr = "f"
                /\ (is_stub(c) \/ world.actual_f = "function")
        THEN child(IF c.kind = "class" THEN "function" ELSE "bound_method")
        ELSE {}

(* ContextSet.py__getattribute__: the union over the members. *)
py__getattribute__(contexts, attr) ==
    UNION {context_py__getattribute__(c, attr) : c \in contexts}

(* ContextSet.py__getattribute__(attr, is_goto=True): the concatenation of *)
(* the members' names, the members taken in any order.                     *)
RECURSIVE goto_names(_, _)
goto_names(order, attr) ==
    IF order = <<>> THEN <<>>
    ELSE LET found == context_py__getattribute__(Head(order), attr)
         IN  (IF found = {} THEN <<>> ELSE <<name(CHOOSE x \in found : TRUE)>>)
             \o goto_names(Tail(order), attr)

(* typeshed._try_to_load_stub_cached: the stub module or None (no member). *)
_try_to_load_stub_cached(module) ==
    IF (module.module = "m" /\ world.stub_m)
       \/ (module.module = "impl" /\ world.stub_impl)
    THEN {ConvContext("stub", module.module, <<>>, "module", FALSE)}
    ELSE {}

Front(q) == SubSeq(q, 1, Len(q) - 1)

Last(q) == q[Len(q)]

(* for name in qualified_names: contexts = contexts.py__getattribute__(name) *)
RECURSIVE walk(_, _)
walk(contexts, qualified_names) ==
    IF qualified_names = <<>> THEN contexts
    ELSE walk(py__getattribute__(contexts, Head(qualified_names)),
              Tail(qualified_names))

_infer_from_stub(stub_module, qualified_names, ignore) ==
    LET non_stubs == non_stub_context_set(stub_module)
        kept == IF ignore THEN {c \in non_stubs : ~is_compiled(c)}
                ELSE non_stubs
    IN  walk(kept, qualified_names)

(* from_sets(c.execute_evaluated() for c in contexts if c.is_class()) *)
execute_classes(contexts) ==
    UNION {class_execute_evaluated(c) : c \in {x \in contexts : is_class(x)}}

(* Faulty variant: the test of the root module is left out. *)
stub_to_actual_context_set_unguarded(stub_context, ignore) ==
    LET stub_module == get_root_context(stub_context)
        was_instance == is_instance(stub_context)
        context == IF was_instance THEN py__class__(stub_context)
                   ELSE stub_context
        was_bound_method == is_bound_method(context)
        qualified_names == IF was_bound_method
                           THEN Front(context.qualified_names)
                           ELSE context.qualified_names
        contexts == _infer_from_stub(stub_module, qualified_names, ignore)
        executed == IF was_instance \/ was_bound_method
                    THEN execute_classes(contexts) ELSE contexts
    IN  IF ~context.known THEN NO_CONTEXTS
        ELSE IF was_bound_method
        THEN py__getattribute__(executed, Last(context.qualified_names))
        ELSE executed

stub_to_actual_context_set(stub_context, ignore) ==
    LET stub_module == get_root_context(stub_context)
        was_instance == is_instance(stub_context)
        context == IF was_instance THEN py__class__(stub_context)
                   ELSE stub_context
        was_bound_method == is_bound_method(context)
        qualified_names == IF was_bound_method
                           THEN Front(context.qualified_names)
                           ELSE context.qualified_names
        contexts == _infer_from_stub(stub_module, qualified_names, ignore)
        executed == IF was_instance \/ was_bound_method
                    THEN execute_classes(contexts) ELSE contexts
    IN  IF ~is_stub(stub_module) THEN {stub_context}
        ELSE IF ~context.known THEN NO_CONTEXTS
        ELSE IF was_bound_method
        THEN py__getattribute__(executed, Last(context.qualified_names))
        ELSE executed

(* Faulty variant: an input that resolves to nothing is dropped. *)
try_stubs_to_actual_context_set_strict(contexts, prefer_stub_to_compiled) ==
    UNION {stub_to_actual_context_set(c, prefer_stub_to_compiled) :
               c \in contexts}

try_stubs_to_actual_context_set(contexts, prefer_stub_to_compiled) ==
    UNION {LET actual == stub_to_actual_context_set(c, prefer_stub_to_compiled)
           IN  IF actual # NO_CONTEXTS THEN actual ELSE {c} :
               c \in contexts}

_load_stub_module(module) ==
    IF is_stub(module) THEN {module} ELSE _try_to_load_stub_cached(module)

(* Faulty variant: the classes found are not executed again. *)
to_stub_unexecuted(context) ==
    LET was_instance == is_instance(context)
        cls == IF was_instance THEN py__class__(context) ELSE context
        stub_module == _load_stub_module(get_root_context(cls))
        was_bound_method == is_bound_method(cls)
        qualified_names == IF was_bound_method
                           THEN Front(cls.qualified_names)
                           ELSE cls.qualified_names
        found == walk(stub_module, qualified_names)
    IN  IF is_stub(context) THEN {context}
        ELSE IF stub_module = {} \/ ~cls.known THEN NO_CONTEXTS
        ELSE IF was_bound_method
        THEN py__getattribute__(found, Last(cls.qualified_names))
        ELSE found

to_stub(context) ==
    LET was_instance == is_instance(context)
        cls == IF was_instance THEN py__class__(context) ELSE context
        stub_module == _load_stub_module(get_root_context(cls))
        was_bound_method == is_bound_method(cls)
        qualified_names == IF was_bound_method
                           THEN Front(cls.qualified_names)
                           ELSE cls.qualified_names
        found == walk(stub_module, qualified_names)
        executed == IF was_instance \/ was_bound_method
                    THEN execute_classes(found) ELSE found
    IN  IF is_stub(context) THEN {context}
        ELSE IF stub_module = {} \/ ~cls.known THEN NO_CONTEXTS
        ELSE IF was_bound_method
        THEN py__getattribute__(executed, Last(cls.qualified_names))
        ELSE executed

(* Faulty variant: the stub name is yielded after the names found too. *)
name_yields_both(n, prefer_stub_to_compiled) ==
    LET module == get_root_context(n)
        name_list == n.qualified_names
        contexts == IF ~n.known THEN NO_CONTEXTS
                    ELSE _infer_from_stub(module, Front(name_list),
                                          prefer_stub_to_compiled)
    IN  IF ~is_stub(module) THEN {<<n>>}
        ELSE IF contexts # {} /\ n.known /\ name_list # <<>>
        THEN {goto_names(order, Last(name_list)) \o <<n>> :
                  order \in Orders(contexts)}
        ELSE IF contexts # {}
        THEN {[i \in 1..Len(order) |-> name(order[i])] :
                  order \in Orders(contexts)}
        ELSE {<<n>>}

(* What one input name yields, for each order in which the set of contexts *)
(* can be iterated.                                                        *)
name_yields(n, prefer_stub_to_compiled) ==
    LET module == get_root_context(n)
        name_list == n.qualified_names
        contexts == IF ~n.known THEN NO_CONTEXTS
                    ELSE _infer_from_stub(module, Front(name_list),
                                          prefer_stub_to_compiled)
    IN  IF ~is_stub(module) THEN {<<n>>}
        ELSE IF contexts # {} /\ n.known /\ name_list # <<>>
        THEN {LET found == goto_names(order, Last(name_list))
              IN  found \o (IF found # <<>> THEN <<>> ELSE <<n>>) :
                  order \in Orders(contexts)}
        ELSE IF contexts # {}
        THEN {[i \in 1..Len(order) |-> name(order[i])] :
                  order \in Orders(contexts)}
        ELSE {<<n>>}

(* The lists try_stub_to_actual_names can return. *)
RECURSIVE try_stub_to_actual_names(_, _)
try_stub_to_actual_names(name_seq, prefer_stub_to_compiled) ==
    IF name_seq = <<>> THEN {<<>>}
    ELSE {first \o rest :
              first \in name_yields(Head(name_seq), prefer_stub_to_compiled),
              rest \in try_stub_to_actual_names(Tail(name_seq),
                                                prefer_stub_to_compiled)}

(* The contexts and names given to the resolver. *)
ConvUniverse ==
    {ConvContext("stub", "m", <<>>, "module", FALSE),
     ConvContext("stub", "m", <<"C">>, "class", FALSE),
     ConvContext("stub", "m", <<"C">>, "instance", FALSE),
     ConvContext("stub", "m", <<"C", "f">>, "function", FALSE),
     ConvContext("stub", "m", <<"C", "f">>, "bound_method", FALSE),
     ConvContext("stub", "m", <<"g">>, "function", FALSE),
     LocalContext("stub", "class"),
     ConvContext("actual", "m", <<"C">>, "class", FALSE),
     ConvContext("actual", "m", <<"C">>, "instance", FALSE),
     ConvContext("actual", "m", <<"C", "f">>, "bound_method", FALSE),
     ConvContext("actual", "m", <<"C">>, "class", TRUE),
     LocalContext("actual", "function")}

ConvContextSets == {S \in SUBSET ConvUniverse : Cardinality(S) <= MaxContexts}

NameUniverse ==
    {name(c) : c \in {x \in ConvUniverse :
                          /\ x.kind \in {"module", "class", "function"}
                          /\ ~x.compiled}}

NameLists == UNION {[1..n -> NameUniverse] : n \in 1..MaxNames}

ConversionInit ==
    /\ PrecedenceIdle /\ FilterIdle /\ CacheIdle /\ NamesIdle /\ AttributeIdle
    /\ ObjectIdle /\ DocIdle /\ ApiIdle
    /\ world \in Worlds
    /\ ignore_compiled \in BOOLEAN
    /\ \/ stub_contexts \in ConvContextSets /\ names = <<>>
       \/ stub_contexts = {} /\ names \in NameLists
    /\ calls = <<>>
    /\ new_names = <<>>
    /\ conv_pc = "start"

(* A single-context conversion is applied to the context given or, later,  *)
(* to a member of the last result.                                         *)
Arguments ==
    IF calls = <<>>
    THEN (IF Cardinality(stub_contexts) = 1 THEN stub_contexts ELSE {})
    ELSE Last(calls).out

StubToActualContextSet ==
    /\ conv_pc \in {"start", "contexts"}
    /\ Len(calls) < MaxCalls
    /\ \E c \in Arguments :
          calls' = Append(calls,
                          [fn |-> "stub_to_actual_context_set", arg |-> {c},
                           out |-> stub_to_actual_context_set(c, ignore_compiled)])
    /\ conv_pc' = "contexts"
    /\ UNCHANGED <<world, stub_contexts, names, ignore_compiled, new_names>>
    /\ UNCHANGED <<precedenceVars, filterVars, cacheVars, nameVars, attributeVars,
                   objectVars, docVars, apiVars>>

ToStub ==
    /\ conv_pc \in {"start", "contexts"}
    /\ Len(calls) < MaxCalls
    /\ \E c \in Arguments :
          calls' = Append(calls,
                          [fn |-> "to_stub", arg |-> {c}, out |-> to_stub(c)])
    /\ conv_pc' = "contexts"
    /\ UNCHANGED <<world, stub_contexts, names, ignore_compiled, new_names>>
    /\ UNCHANGED <<precedenceVars, filterVars, cacheVars, nameVars, attributeVars,
                   objectVars, docVars, apiVars>>

TryStubsToActualContextSet ==
    /\ conv_pc = "start"
    /\ names = <<>>
    /\ calls' = <<[fn |-> "try_stubs_to_actual_context_set",
                   arg |-> stub_contexts,
                   out |-> try_stubs_to_actual_context_set(stub_contexts,
                                                           ignore_compiled)]>>
    /\ conv_pc' = "contexts"
    /\ UNCHANGED <<world, stub_contexts, names, ignore_compiled, new_names>>
    /\ UNCHANGED <<precedenceVars, filterVars, cacheVars, nameVars, attributeVars,
                   objectVars, docVars, apiVars>>

TryStubToActualNames ==
    /\ conv_pc = "start"
    /\ stub_contexts = {}
    /\ new_names' \in try_stub_to_actual_names(names, ignore_compiled)
    /\ conv_pc' = "names"
    /\ UNCHANGED <<world, stub_contexts, names, ignore_compiled, calls>>
    /\ UNCHANGED <<precedenceVars, filterVars, cacheVars, nameVars, attributeVars,
                   objectVars, docVars, apiVars>>

ConversionNext ==
    \/ StubToActualContextSet
    \/ ToStub
    \/ TryStubsToActualContextSet
    \/ TryStubToActualNames

SpecConversion == ConversionInit /\ [][ConversionNext]_vars

(***************************************************************************)
(* Properties of the gradual-typing resolver                               *)
(***************************************************************************)
StubC == ConvContext("stub", "m", <<"C">>, "class", FALSE)

StubInstance == ConvContext("stub", "m", <<"C">>, "instance", FALSE)

StubG == ConvContext("stub", "m", <<"g">>, "function", FALSE)

ActualC == ConvContext("actual", "m", <<"C">>, "class", FALSE)

ActualInstance == ConvContext("actual", "m", <<"C">>, "instance", FALSE)

ActualG == ConvContext("actual", "m", <<"g">>, "function", FALSE)

(* The context a single-context call was applied to. *)
Argument(call) == CHOOSE c \in call.arg : TRUE

SingleCalls == {"stub_to_actual_context_set", "to_stub"}

OnTargetSide(call) ==
    \/ /\ call.fn = "stub_to_actual_context_set"
       /\ ~is_stub(get_root_context(Argument(call)))
    \/ /\ call.fn = "to_stub"
       /\ is_stub(Argument(call))

(* C12: stub_to_actual_context_set(c) is {c} when the root module of c is  *)
(* not a stub, to_stub(c) is {c} when c is a stub, and the same conversion *)
(* applied again to that result returns it again.                          *)
C12_Identity ==
    \A i \in 1..Len(calls) :
        (calls[i].fn \in SingleCalls /\ OnTargetSide(calls[i])) =>
            /\ calls[i].out = calls[i].arg
            /\ (i < Len(calls) /\ calls[i + 1].fn = calls[i].fn) =>
                   calls[i + 1].out = calls[i].out

C12_Witness ==
    /\ Len(calls) = 2
    /\ calls[1] = [fn |-> "stub_to_actual_context_set",
                   arg |-> {ActualInstance}, out |-> {ActualInstance}]
    /\ calls[2] = calls[1]

(* A round trip: stub_to_actual_context_set(E) for a stub context E with   *)
(* known qualified names and a companion, then to_stub(a) for a member a.  *)
RoundTrip(i) ==
    /\ i < Len(calls)
    /\ calls[i].fn = "stub_to_actual_context_set"
    /\ is_stub(Argument(calls[i]))
    /\ Argument(calls[i]).known
    /\ non_stub_context_set(get_root_context(Argument(calls[i]))) # {}
    /\ calls[i + 1].fn = "to_stub"

SamePathAndShape(x, E) ==
    /\ x.known
    /\ x.qualified_names = E.qualified_names
    /\ x.kind = E.kind

(* C13 as stated: every context of to_stub(a), a in                        *)
(* stub_to_actual_context_set(E), has the qualified path and shape of E.   *)
C13_Original ==
    \A i \in 1..Len(calls) :
        RoundTrip(i) =>
            \A x \in calls[i + 1].out : SamePathAndShape(x, Argument(calls[i]))

(* C13: the round trip gives back the qualified path and shape of E for    *)
(* every actual context a that is itself defined under the path of E in a  *)
(* module whose stub is the stub module of E.                              *)
C13_Amended ==
    \A i \in 1..Len(calls) :
        LET E == Argument(calls[i])
            a == Argument(calls[i + 1])
        IN  (/\ RoundTrip(i)
             /\ a.known
             /\ a.qualified_names = E.qualified_names
             /\ _load_stub_module(get_root_context(a)) = {get_root_context(E)})
            => \A x \in calls[i + 1].out : SamePathAndShape(x, E)

C13_Witness ==
    /\ Len(calls) = 2
    /\ calls[1] = [fn |-> "stub_to_actual_context_set",
                   arg |-> {StubInstance}, out |-> {ActualInstance}]
    /\ calls[2] = [fn |-> "to_stub",
                   arg |-> {ActualInstance}, out |-> {StubInstance}]

(* C14: try_stubs_to_actual_context_set(S) is the union, over s in S, of   *)
(* stub_to_actual_context_set(s) where that is not empty and of {s}        *)
(* otherwise; it is empty only for an empty S, and an input that resolves  *)
(* to nothing is a member of it.                                           *)
C14_TryStubs ==
    \A i \in 1..Len(calls) :
        calls[i].fn = "try_stubs_to_actual_context_set" =>
            LET S == calls[i].arg
                actual(s) == stub_to_actual_context_set(s, ignore_compiled)
            IN  /\ calls[i].out =
                       UNION {actual(s) : s \in S}
                       \cup {s \in S : actual(s) = NO_CONTEXTS}
                /\ \A s \in S :
                       \/ s \in calls[i].out
                       \/ /\ actual(s) # NO_CONTEXTS
                          /\ actual(s) \subseteq calls[i].out
                /\ \A s \in S : actual(s) = NO_CONTEXTS => s \in calls[i].out
                /\ (calls[i].out = NO_CONTEXTS) <=> (S = {})

C14_Witness ==
    /\ Len(calls) = 1
    /\ calls[1].fn = "try_stubs_to_actual_context_set"
    /\ calls[1].arg = {StubC, LocalContext("stub", "class")}
    /\ calls[1].out = {ActualC, LocalContext("stub", "class")}

(* The names an input stub name resolves to in the actual companions: the  *)
(* last segment looked up where the rest of the path leads, or the         *)
(* companions' own names for the name of the stub module itself.           *)
ResolvedNames(n) ==
    IF ~n.known THEN {}
    ELSE LET parents == _infer_from_stub(get_root_context(n),
                                         Front(n.qualified_names),
                                         ignore_compiled)
         IN  IF n.qualified_names = <<>> THEN {name(c) : c \in parents}
             ELSE {name(x) : x \in py__getattribute__(parents,
                                                      Last(n.qualified_names))}

(* The part of the output that one input name accounts for. *)
SegmentFor(n, seg) ==
    /\ seg # <<>>
    /\ IF ~is_stub(get_root_context(n)) THEN seg = <<n>>
       ELSE /\ (n \in Range(seg)) <=> (ResolvedNames(n) = {})
            /\ ResolvedNames(n) = {} => seg = <<n>>
            /\ ResolvedNames(n) # {} => Range(seg) = ResolvedNames(n)

RECURSIVE SumTo(_, _)
SumTo(lens, i) == IF i = 0 THEN 0 ELSE lens[i] + SumTo(lens, i - 1)

(* The ways to cut a list into n consecutive parts, as the parts' lengths. *)
Cuts(list, n) ==
    {lens \in [1..n -> 1..Len(list)] : SumTo(lens, n) = Len(list)}

Part(list, lens, i) ==
    SubSeq(list, SumTo(lens, i - 1) + 1, SumTo(lens, i))

(* C15: the list returned by try_stub_to_actual_names is, in input order,  *)
(* one non-empty part per input name: the name itself when its root module *)
(* is not a stub, otherwise the names resolved in the actual companions,   *)
(* and the stub name itself exactly when nothing is resolved; the stub     *)
(* name never comes together with resolved names.                          *)
C15_TryNames ==
    conv_pc = "names" =>
        \E lens \in Cuts(new_names, Len(names)) :
            \A i \in 1..Len(names) :
                SegmentFor(names[i], Part(new_names, lens, i))

C15_Witness ==
    /\ conv_pc = "names"
    /\ world.actual_C = "absent"
    /\ names = <<name(StubC), name(StubG)>>
    /\ new_names = <<name(StubC), name(ActualG)>>

(***************************************************************************)
(* CompiledObjectFilter (src/jedi/evaluate/compiled/context.py).           *)
(*                                                                         *)
(* An access handle is what the reflection layer reports of one object:    *)
(* for each identifier the pair (has_attribute, is_descriptor) of          *)
(* is_allowed_getattr, the identifiers dir() lists, and whether type       *)
(* completions are needed (a class other than type).  A behaviour is one   *)
(* call of get or values on the filter of the object.                      *)
(***************************************************************************)
(* The identifiers, in the order dir() lists them. *)
Identifiers == <<"__doc__", "mro", "x">>

(* is_allowed_getattr: absent, plain attribute, descriptor. *)
AllowedGetattr == {<<FALSE, FALSE>>, <<TRUE, FALSE>>, <<TRUE, TRUE>>}

AccessHandles ==
    [allowed : [Range(Identifiers) -> AllowedGetattr],
     dir : SUBSET Range(Identifiers),
     needs_type_completions : BOOLEAN]

(* The handles of the built-in type: plain attributes, no type completions. *)
TypeHandles ==
    {h \in AccessHandles :
        /\ ~h.needs_type_completions
        /\ \A n \in Range(Identifiers) : h.allowed[n] = <<TRUE, FALSE>>}

CompiledObjectFilter(compiled_object, instance) ==
    [compiled_object |-> compiled_object, is_instance |-> instance]

CompiledName(parent_context, string_name) ==
    [cls |-> "CompiledName", parent_context |-> parent_context,
     string_name |-> string_name]

EmptyCompiledName(string_name) ==
    [cls |-> "EmptyCompiledName", parent_context |-> "builtins",
     string_name |-> string_name]

UnresolvableParamName(string_name) ==
    [cls |-> "UnresolvableParamName", parent_context |-> "builtins",
     string_name |-> string_name]

_get_cached_name(filter, string_name, is_empty) ==
    IF is_empty THEN EmptyCompiledName(string_name)
    ELSE CompiledName(filter.compiled_object, string_name)

(* Faulty variant: an absent attribute is reported as an opaque one. *)
_get_unchecked(filter, string_name, allowed_getattr, dir_names, check_has_attribute) ==
    LET has_attribute == allowed_getattr[1]
        is_descriptor == allowed_getattr[2]
    IN  IF is_descriptor \/ ~has_attribute
        THEN [names |-> <<_get_cached_name(filter, string_name, TRUE)>>,
              dir_called |-> FALSE]
        ELSE IF filter.is_instance /\ string_name \notin dir_names
        THEN [names |-> <<>>, dir_called |-> TRUE]
        ELSE [names |-> <<_get_cached_name(filter, string_name, FALSE)>>,
              dir_called |-> filter.is_instance]

(* The names found and whether dir_callback was called. *)
_get(filter, string_name, allowed_getattr, dir_names, check_has_attribute) ==
    LET has_attribute == allowed_getattr[1]
        is_descriptor == allowed_getattr[2]
    IN  IF check_has_attribute /\ ~has_attribute
        THEN [names |-> <<>>, dir_called |-> FALSE]
        ELSE IF is_descriptor \/ ~has_attribute
        THEN [names |-> <<_get_cached_name(filter, string_name, TRUE)>>,
              dir_called |-> FALSE]
        ELSE IF filter.is_instance /\ string_name \notin dir_names
        THEN [names |-> <<>>, dir_called |-> TRUE]
        ELSE [names |-> <<_get_cached_name(filter, string_name, FALSE)>>,
              dir_called |-> filter.is_instance]

(* The names found and the operations of the handle that were called. *)
get(filter, handle, string_name) ==
    LET found == _get(filter, string_name, handle.allowed[string_name],
                      handle.dir, TRUE)
    IN  [names |-> found.names,
         calls |-> {"is_allowed_getattr"}
                   \cup (IF found.dir_called THEN {"dir"} ELSE {})]

(* for name in dir_infos: names += self._get(name, ...) *)
RECURSIVE dir_infos_names(_, _, _)
dir_infos_names(filter, handle, identifiers) ==
    IF identifiers = <<>> THEN <<>>
    ELSE (IF Head(identifiers) \in handle.dir
          THEN _get(filter, Head(identifiers),
                    handle.allowed[Head(identifiers)], handle.dir, FALSE).names
          ELSE <<>>)
         \o dir_infos_names(filter, handle, Tail(identifiers))

(* values() of the filter of the object, then of the filter of the         *)
(* built-in type, which itself needs no type completions.                  *)
values(filter, handle, type) ==
    dir_infos_names(filter, handle, Identifiers)
    \o (IF ~filter.is_instance /\ handle.needs_type_completions
        THEN dir_infos_names(CompiledObjectFilter("type", FALSE), type, Identifiers)
        ELSE <<>>)

(* infer() of the marker names is empty; that of a CompiledName is the     *)
(* object created for the attribute.                                       *)
infer(n) ==
    IF n.cls \in {"EmptyCompiledName", "UnresolvableParamName"}
    THEN NO_CONTEXTS
    ELSE {[cls |-> "CompiledObject", parent_context |-> n.parent_context,
           string_name |-> n.string_name]}

FilterInit ==
    /\ PrecedenceIdle /\ ConversionIdle /\ CacheIdle /\ NamesIdle
    /\ AttributeIdle
    /\ ObjectIdle /\ DocIdle /\ ApiIdle
    /\ access_handle \in AccessHandles
    /\ type_handle \in TypeHandles
    /\ filter_is_instance \in BOOLEAN
    /\ filter_names = <<>>
    /\ handle_calls = {}
    /\ filter_pc = "start"

Get ==
    /\ filter_pc = "start"
    /\ \E n \in Range(Identifiers) :
          LET r == get(CompiledObjectFilter("object", filter_is_instance),
                       access_handle, n)
          IN  /\ filter_names' = r.names
              /\ handle_calls' = r.calls
              /\ filter_pc' = n
    /\ UNCHANGED <<access_handle, type_handle, filter_is_instance>>
    /\ UNCHANGED <<precedenceVars, conversionVars, cacheVars, nameVars,
                   attributeVars,
                   objectVars, docVars, apiVars>>

Values ==
    /\ filter_pc = "start"
    /\ filter_names' = values(CompiledObjectFilter("object", filter_is_instance),
                              access_handle, type_handle)
    /\ handle_calls' = {"get_dir_infos"}
    /\ filter_pc' = "values"
    /\ UNCHANGED <<access_handle, type_handle, filter_is_instance>>
    /\ UNCHANGED <<precedenceVars, conversionVars, cacheVars, nameVars,
                   attributeVars,
                   objectVars, docVars, apiVars>>

FilterNext == Get \/ Values

SpecFilter == FilterInit /\ [][FilterNext]_vars

(* C16: get(name) returns the empty list when the handle reports the       *)
(* attribute absent and exactly one EmptyCompiledName, whose infer() is    *)
(* empty, when the attribute is a descriptor; the value of the attribute   *)
(* is not read in either case, and the list never has two elements.        *)
C16_Get ==
    \A n \in Range(Identifiers) :
        filter_pc = n =>
            /\ ~access_handle.allowed[n][1] => filter_names = <<>>
            /\ access_handle.allowed[n] = <<TRUE, TRUE>> =>
                   /\ filter_names = <<EmptyCompiledName(n)>>
                   /\ infer(filter_names[1]) = NO_CONTEXTS
            /\ Len(filter_names) <= 1
            /\ "getattr_paths" \notin handle_calls

C16_Witness ==
    /\ filter_pc = "x"
    /\ access_handle.allowed["x"] = <<TRUE, TRUE>>
    /\ access_handle.allowed["mro"] = <<FALSE, FALSE>>
    /\ filter_names = <<EmptyCompiledName("x")>>

(* C17: values() holds at most one name per identifier.                    *)
C17_Shadowing ==
    filter_pc = "values" =>
        \A i, j \in 1..Len(filter_names) :
            filter_names[i].string_name = filter_names[j].string_name => i = j

(***************************************************************************)
(* The cache of compiled objects (context.py:498-529).                     *)
(*                                                                         *)
(* objects is the sequence of the CompiledObject nodes constructed; a node *)
(* is named by its index and None by 0.  memoize_cache is the dictionary   *)
(* evaluator.memoize_cache[create_cached_compiled_object], from the        *)
(* arguments of a call to the node returned.  returns records every call:  *)
(* the handle, the parent, how the parent was passed and the node.         *)
(***************************************************************************)
(* Most CompiledObject nodes constructed. *)
MaxObjects == 3

(* Longest access path. *)
MaxPath == 2

None == 0

Handles == {"h1", "h2"}

Styles == {"positional", "keyword", "omitted"}

(* The arguments as the caller writes them, the evaluator left out. *)
CallArguments(style, obj, parent_context) ==
    IF style = "positional"
    THEN [args |-> <<obj, parent_context>>, kwargs |-> {}]
    ELSE IF style = "keyword"
    THEN [args |-> <<obj>>, kwargs |-> {<<"parent_context", parent_context>>}]
    ELSE [args |-> <<obj>>, kwargs |-> {}]

(* Faulty variant: the arguments reach the cache as they were written. *)
_normalize_create_args_raw(call) == call

(* wrapper(evaluator, obj, parent_context=None): func(evaluator, obj,      *)
(* parent_context)                                                         *)
_normalize_create_args(call) ==
    LET obj == call.args[1]
        parent_context ==
            IF Len(call.args) = 2 THEN call.args[2]
            ELSE IF call.kwargs # {}
            THEN (CHOOSE kw \in call.kwargs : kw[1] = "parent_context")[2]
            ELSE None
    IN  [args |-> <<obj, parent_context>>, kwargs |-> {}]

(* evaluator_function_cache: the key is (args, frozenset(kwargs.items())); *)
(* a key already in the dictionary returns its entry, a new key stores     *)
(* what the function returns.                                              *)
evaluator_function_cache(cache, nodes, key, obj, parent_context) ==
    IF key \in DOMAIN cache
    THEN [cache |-> cache, objects |-> nodes, node |-> cache[key]]
    ELSE [cache |-> cache @@ (key :> Len(nodes) + 1),
          objects |-> Append(nodes, [access_handle |-> obj,
                                     parent_context |-> parent_context]),
          node |-> Len(nodes) + 1]

create_cached_compiled_object(cache, nodes, style, obj, parent_context) ==
    LET key == _normalize_create_args(CallArguments(style, obj, parent_context))
    IN  evaluator_function_cache(cache, nodes, key,
                                 obj, IF style = "omitted" THEN None
                                      ELSE parent_context)

Returned(style, obj, parent_context, r) ==
    [access_handle |-> obj,
     parent_context |-> IF style = "omitted" THEN None ELSE parent_context,
     style |-> style, node |-> r.node]

(* for access in accesses: context = create_cached_compiled_object(        *)
(* evaluator, access, context): the cache, the nodes, the last node and    *)
(* the calls made.                                                         *)
RECURSIVE create_chain(_, _, _, _, _, _)
create_chain(cache, nodes, style, accesses, context, made) ==
    IF accesses = <<>>
    THEN [cache |-> cache, objects |-> nodes, node |-> context, made |-> made]
    ELSE LET r == create_cached_compiled_object(cache, nodes, style,
                                                Head(accesses), context)
         IN  create_chain(r.cache, r.objects, style, Tail(accesses), r.node,
                          made \cup {Returned(style, Head(accesses), context, r)})

create_from_access_path(cache, nodes, accesses) ==
    create_chain(cache, nodes, "positional", accesses, None, {})

_create_from_name(cache, nodes, access_paths) ==
    create_chain(cache, nodes, "keyword", access_paths, None, {})

AccessPaths == UNION {[1..n -> Handles] : n \in 1..MaxPath}

CacheInit ==
    /\ PrecedenceIdle /\ ConversionIdle /\ FilterIdle /\ NamesIdle
    /\ AttributeIdle
    /\ ObjectIdle /\ DocIdle /\ ApiIdle
    /\ memoize_cache = <<>>
    /\ objects = <<>>
    /\ returns = {}

CreateCachedCompiledObject ==
    /\ \E style \in Styles, obj \in Handles, parent \in 0..Len(objects) :
          LET r == create_cached_compiled_object(memoize_cache, objects,
                                                 style, obj, parent)
          IN  /\ style = "omitted" => parent = None
              /\ Len(r.objects) <= MaxObjects
              /\ memoize_cache' = r.cache
              /\ objects' = r.objects
              /\ returns' = returns \cup {Returned(style, obj, parent, r)}
    /\ UNCHANGED <<precedenceVars, conversionVars, filterVars, nameVars,
                   attributeVars,
                   objectVars, docVars, apiVars>>

CreateFromAccessPath ==
    /\ \E accesses \in AccessPaths :
          LET r == create_from_access_path(memoize_cache, objects, accesses)
          IN  /\ Len(r.objects) <= MaxObjects
              /\ memoize_cache' = r.cache
              /\ objects' = r.objects
              /\ returns' = returns \cup r.made
    /\ UNCHANGED <<precedenceVars, conversionVars, filterVars, nameVars,
                   attributeVars,
                   objectVars, docVars, apiVars>>

CreateFromName ==
    /\ \E access_paths \in AccessPaths :
          LET r == _create_from_name(memoize_cache, objects, access_paths)
          IN  /\ Len(r.objects) <= MaxObjects
              /\ memoize_cache' = r.cache
              /\ objects' = r.objects
              /\ returns' = returns \cup r.made
    /\ UNCHANGED <<precedenceVars, conversionVars, filterVars, nameVars,
                   attributeVars,
                   objectVars, docVars, apiVars>>

CacheNext ==
    \/ CreateCachedCompiledObject
    \/ CreateFromAccessPath
    \/ CreateFromName

SpecCache == CacheInit /\ [][CacheNext]_vars

(* C18: two calls with the same access handle and parent context return    *)
(* the same node however the parent was passed, and every node returned is *)
(* still the entry of its pair.                                            *)
C18_Cache ==
    /\ \A a, b \in returns :
           (a.access_handle = b.access_handle
            /\ a.parent_context = b.parent_context) => a.node = b.node
    /\ \A a \in returns :
           LET key == [args |-> <<a.access_handle, a.parent_context>>,
                       kwargs |-> {}]
           IN  /\ key \in DOMAIN memoize_cache
               /\ memoize_cache[key] = a.node
               /\ objects[a.node] = [access_handle |-> a.access_handle,
                                     parent_context |-> a.parent_context]

C18_Witness ==
    /\ \A style \in Styles :
           [access_handle |-> "h1", parent_context |-> None,
            style |-> style, node |-> 1] \in returns
    /\ \A style \in {"positional", "keyword"} :
           [access_handle |-> "h2", parent_context |-> 1,
            style |-> style, node |-> 2] \in returns
    /\ Len(objects) = 2

(***************************************************************************)
(* infer() of names (context.py:277-281, 338-360; names.py:226-230).       *)
(*                                                                         *)
(* name_memo holds, per name instance, the memoized result (<<>> while     *)
(* there is none), name_lookups counts the underlying lookups and          *)
(* name_returns lists what infer() returned, call after call.  What a      *)
(* lookup finds is the environment's choice at the time of the call.       *)
(***************************************************************************)
(* Most calls of infer() on one name instance. *)
MaxInfers == 3

ImportName(string_name) ==
    [cls |-> "ImportName", parent_context |-> "module",
     string_name |-> string_name]

NameInstances ==
    {CompiledName("object", "x"), ImportName("os"), EmptyCompiledName("x"),
     UnresolvableParamName("a")}

(* ContextSet([_create_from_name(...)]): the object the attribute path     *)
(* leads to.                                                               *)
AttributeLookups == {{"c1"}, {"c2"}}

(* Importer(...).follow(): the modules found. *)
ImportLookups == {{}, {"m1"}, {"m1", "m2"}}

(* jedi.cache.underscore_memoization: getattr(self, '_infer'), else call   *)
(* the function and setattr the result.                                    *)
underscore_memoization(memo, looked_up) ==
    IF memo # <<>> THEN [memo |-> memo, value |-> memo[1], lookups |-> 0]
    ELSE [memo |-> <<looked_up>>, value |-> looked_up, lookups |-> 1]

(* jedi.cache.memoize_method: the dictionary of the instance, keyed by the *)
(* arguments, of which infer() has none.                                   *)
memoize_method(memo, looked_up) ==
    IF memo # <<>> THEN [memo |-> memo, value |-> memo[1], lookups |-> 0]
    ELSE [memo |-> <<looked_up>>, value |-> looked_up, lookups |-> 1]

NamesInit ==
    /\ PrecedenceIdle /\ ConversionIdle /\ FilterIdle /\ CacheIdle
    /\ AttributeIdle
    /\ ObjectIdle /\ DocIdle /\ ApiIdle
    /\ name_memo = [n \in NameInstances |-> <<>>]
    /\ name_lookups = [n \in NameInstances |-> 0]
    /\ name_returns = [n \in NameInstances |-> <<>>]

Called(n, r) ==
    /\ name_memo' = [name_memo EXCEPT ![n] = r.memo]
    /\ name_lookups' = [name_lookups EXCEPT ![n] = @ + r.lookups]
    /\ name_returns' = [name_returns EXCEPT ![n] = Append(@, r.value)]
    /\ UNCHANGED <<precedenceVars, conversionVars, filterVars, cacheVars,
                   attributeVars,
                   objectVars, docVars, apiVars>>

(* Faulty variant: infer() of a CompiledName is not memoized. *)
InferCompiledName_unmemoized ==
    \E n \in NameInstances, looked_up \in AttributeLookups :
        /\ n.cls = "CompiledName"
        /\ Len(name_returns[n]) < MaxInfers
        /\ Called(n, [memo |-> name_memo[n], value |-> looked_up,
                      lookups |-> 1])

InferCompiledName ==
    \E n \in NameInstances, looked_up \in AttributeLookups :
        /\ n.cls = "CompiledName"
        /\ Len(name_returns[n]) < MaxInfers
        /\ Called(n, underscore_memoization(name_memo[n], looked_up))

InferImportName ==
    \E n \in NameInstances, looked_up \in ImportLookups :
        /\ n.cls = "ImportName"
        /\ Len(name_returns[n]) < MaxInfers
        /\ Called(n, memoize_method(name_memo[n], looked_up))

InferEmptyCompiledName ==
    \E n \in NameInstances :
        /\ n.cls = "EmptyCompiledName"
        /\ Len(name_returns[n]) < MaxInfers
        /\ Called(n, [memo |-> name_memo[n], value |-> infer(n), lookups |-> 0])

InferUnresolvableParamName ==
    \E n \in NameInstances :
        /\ n.cls = "UnresolvableParamName"
        /\ Len(name_returns[n]) < MaxInfers
        /\ Called(n, [memo |-> name_memo[n], value |-> infer(n), lookups |-> 0])

NamesNext ==
    \/ InferCompiledName
    \/ InferImportName
    \/ InferEmptyCompiledName
    \/ InferUnresolvableParamName

SpecNames == NamesInit /\ [][NamesNext]_vars

(* C19: the calls of infer() on one name instance all return the same set; *)
(* a CompiledName or ImportName performs its lookup at most once and then  *)
(* returns the memoized set; an EmptyCompiledName or UnresolvableParamName *)
(* always infers to the empty set.                                         *)
C19_Infer ==
    \A n \in NameInstances :
        /\ \A i, j \in 1..Len(name_returns[n]) :
               name_returns[n][i] = name_returns[n][j]
        /\ n.cls \in {"CompiledName", "ImportName"} =>
               /\ name_lookups[n] <= 1
               /\ name_returns[n] # <<>> =>
                      /\ name_lookups[n] = 1
                      /\ name_memo[n] = <<name_returns[n][1]>>
        /\ n.cls \in {"EmptyCompiledName", "UnresolvableParamName"} =>
               /\ name_lookups[n] = 0
               /\ \A i \in 1..Len(name_returns[n]) :
                      name_returns[n][i] = NO_CONTEXTS

C19_Witness ==
    /\ name_returns[CompiledName("object", "x")] = <<{"c1"}, {"c1"}, {"c1"}>>
    /\ name_returns[ImportName("os")] = <<{"m1", "m2"}, {"m1", "m2"}>>
    /\ name_returns[EmptyCompiledName("x")] = <<{}, {}>>
    /\ name_returns[UnresolvableParamName("a")] = <<{}>>
    /\ name_lookups[CompiledName("object", "x")] = 1
    /\ name_lookups[ImportName("os")] = 1

(***************************************************************************)
(* The CheckAttribute descriptor (context.py:22-40) on py__class__,        *)
(* py__mro__, py__bases__ and py__path__ (context.py:62-82).               *)
(*                                                                         *)
(* A name is the sequence of its characters.  checked_handle is what the   *)
(* access handle of the object reports: the attributes it has, its class,  *)
(* the accesses of its MRO and bases, its path.  accessed is the method    *)
(* read from the object, outcome what reading and then calling it gave.    *)
(***************************************************************************)
(* Longest MRO or list of bases the handle reports. *)
MaxMro == 2

func_py__class__ == <<"p", "y", "_", "_", "c", "l", "a", "s", "s", "_", "_">>

func_py__mro__ == <<"p", "y", "_", "_", "m", "r", "o", "_", "_">>

func_py__bases__ == <<"p", "y", "_", "_", "b", "a", "s", "e", "s", "_", "_">>

func_py__path__ == <<"p", "y", "_", "_", "p", "a", "t", "h", "_", "_">>

CheckedMethods ==
    {func_py__class__, func_py__mro__, func_py__bases__, func_py__path__}

(* The attributes a handle may have. *)
HandleAttributes ==
    {<<"_", "_", "c", "l", "a", "s", "s", "_", "_">>,
     <<"_", "_", "m", "r", "o", "_", "_">>,
     <<"_", "_", "b", "a", "s", "e", "s", "_", "_">>,
     <<"_", "_", "p", "a", "t", "h", "_", "_">>}

Accesses == {"A", "B"}

AccessLists == UNION {[1..n -> Accesses] : n \in 0..MaxMro}

(* A path as the handle gives it, and as text. *)
cast_path(path) == [path EXCEPT !.bytes = FALSE]

CheckedHandles ==
    [attributes : SUBSET HandleAttributes,
     class : Accesses,
     mro : AccessLists,
     bases : AccessLists,
     path : {<<>>, <<[text |-> "pkg", bytes |-> TRUE]>>}]

(* create_from_access_path(evaluator, access): the object of an access. *)
object_of(access) == [cls |-> "CompiledObject", access |-> access]

self == [cls |-> "CompiledObject", access |-> "self"]

(* Faulty variant: the name of the function is taken whole. *)
check_name_whole(func_name) == func_name

(* CheckAttribute.__call__: force_unicode(func.__name__[2:]) *)
check_name(func_name) == SubSeq(func_name, 3, Len(func_name))

(* access_handle.getattr_paths(name) raises AttributeError for an          *)
(* attribute the object does not have.                                     *)
getattr_paths_raises(handle, attribute) == attribute \notin handle.attributes

(* CheckAttribute.__get__: raise or return partial(self.func, instance). *)
CheckAttribute__get__(handle, func_name) ==
    IF getattr_paths_raises(handle, check_name(func_name))
    THEN "AttributeError"
    ELSE "partial"

(* The functions behind the descriptor. *)
CompiledObject_call(handle, func_name) ==
    IF func_name = func_py__class__ THEN object_of(handle.class)
    ELSE IF func_name = func_py__mro__
    THEN <<self>> \o [i \in 1..Len(handle.mro) |-> object_of(handle.mro[i])]
    ELSE IF func_name = func_py__bases__
    THEN [i \in 1..Len(handle.bases) |-> object_of(handle.bases[i])]
    ELSE [i \in 1..Len(handle.path) |-> cast_path(handle.path[i])]

AttributeInit ==
    /\ PrecedenceIdle /\ ConversionIdle /\ FilterIdle /\ CacheIdle
    /\ NamesIdle
    /\ ObjectIdle /\ DocIdle /\ ApiIdle
    /\ checked_handle \in CheckedHandles
    /\ accessed = <<>>
    /\ outcome = [stage |-> "none", value |-> <<>>]

(* Reading the attribute from the object. *)
Access ==
    /\ accessed = <<>>
    /\ \E func_name \in CheckedMethods :
          /\ accessed' = func_name
          /\ outcome' = [stage |-> CheckAttribute__get__(checked_handle,
                                                         func_name),
                         value |-> <<>>]
    /\ UNCHANGED checked_handle
    /\ UNCHANGED <<precedenceVars, conversionVars, filterVars, cacheVars,
                   nameVars,
                   objectVars, docVars, apiVars>>

(* Calling what was read. *)
Call ==
    /\ outcome.stage = "partial"
    /\ outcome' = [stage |-> "returned",
                   value |-> CompiledObject_call(checked_handle, accessed)]
    /\ UNCHANGED <<checked_handle, accessed>>
    /\ UNCHANGED <<precedenceVars, conversionVars, filterVars, cacheVars,
                   nameVars,
                   objectVars, docVars, apiVars>>

AttributeNext == Access \/ Call

SpecAttribute == AttributeInit /\ [][AttributeNext]_vars

(* The attribute each method stands for. *)
DunderOf(func_name) ==
    IF func_name = func_py__class__ THEN <<"_", "_", "c", "l", "a", "s", "s", "_", "_">>
    ELSE IF func_name = func_py__mro__ THEN <<"_", "_", "m", "r", "o", "_", "_">>
    ELSE IF func_name = func_py__bases__ THEN <<"_", "_", "b", "a", "s", "e", "s", "_", "_">>
    ELSE <<"_", "_", "p", "a", "t", "h", "_", "_">>

(* C20: reading py__class__, py__mro__, py__bases__ or py__path__ raises   *)
(* AttributeError, before any call, exactly when the handle lacks          *)
(* __class__, __mro__, __bases__ or __path__; otherwise the call returns   *)
(* what the handle reports, and py__mro__ returns the object itself        *)
(* followed by the handle's MRO entries in order.                          *)
C20_CheckAttribute ==
    accessed # <<>> =>
        /\ (outcome.stage = "AttributeError")
               <=> (DunderOf(accessed) \notin checked_handle.attributes)
        /\ outcome.stage \in {"AttributeError", "partial", "returned"}
        /\ (outcome.stage = "returned" /\ accessed = func_py__class__) =>
               outcome.value = object_of(checked_handle.class)
        /\ (outcome.stage = "returned" /\ accessed = func_py__mro__) =>
               /\ Len(outcome.value) = Len(checked_handle.mro) + 1
               /\ outcome.value[1] = self
               /\ \A i \in 1..Len(checked_handle.mro) :
                      outcome.value[i + 1] = object_of(checked_handle.mro[i])
        /\ (outcome.stage = "returned" /\ accessed = func_py__bases__) =>
               /\ Len(outcome.value) = Len(checked_handle.bases)
               /\ \A i \in 1..Len(checked_handle.bases) :
                      outcome.value[i] = object_of(checked_handle.bases[i])
        /\ (outcome.stage = "returned" /\ accessed = func_py__path__) =>
               /\ Len(outcome.value) = Len(checked_handle.path)
               /\ \A i \in 1..Len(checked_handle.path) :
                      outcome.value[i].text = checked_handle.path[i].text

C20_Witness ==
    /\ accessed = func_py__mro__
    /\ checked_handle.attributes = {DunderOf(func_py__mro__)}
    /\ checked_handle.mro = <<"A", "B">>
    /\ outcome = [stage |-> "returned",
                  value |-> <<self, object_of("A"), object_of("B")>>]

(***************************************************************************)
(* The docstring parser of compiled objects, _parse_function_doc, and      *)
(* get_param_names (src/jedi/evaluate/compiled/context.py).  A string is   *)
(* the sequence of its characters, so that slices and searches are what    *)
(* Python makes of them; positions named as in the source count from 0.    *)
(***************************************************************************)

(* Most fragments a docstring is put together from. *)
MaxParts == 3

Whitespace == {" ", "\n"}

docstr_defaults ==
    {<<<<"f", "l", "o", "a", "t", "i", "n", "g", " ", "p", "o", "i", "n", "t", " ", "n", "u", "m", "b", "e", "r">>,
       <<"f", "l", "o", "a", "t">>>>,
     <<<<"c", "h", "a", "r", "a", "c", "t", "e", "r">>, <<"s", "t", "r">>>>,
     <<<<"i", "n", "t", "e", "g", "e", "r">>, <<"i", "n", "t">>>>,
     <<<<"d", "i", "c", "t", "i", "o", "n", "a", "r", "y">>,
       <<"d", "i", "c", "t">>>>,
     <<<<"s", "t", "r", "i", "n", "g">>, <<"s", "t", "r">>>>}

(* docstr_defaults.get(ret_str, ret_str) *)
docstr_defaults_get(ret_str) ==
    IF \E entry \in docstr_defaults : entry[1] = ret_str
    THEN (CHOOSE entry \in docstr_defaults : entry[1] = ret_str)[2]
    ELSE ret_str

(* s.index(ch) + 1, 0 where Python raises ValueError. *)
index_of(s, ch) ==
    IF \E i \in DOMAIN s : s[i] = ch
    THEN CHOOSE i \in DOMAIN s : s[i] = ch /\ \A j \in 1..(i - 1) : s[j] # ch
    ELSE 0

(* s.split(sep) for a separator of one character. *)
RECURSIVE split(_, _)
split(s, sep) ==
    LET i == index_of(s, sep)
    IN  IF i = 0
        THEN <<s>>
        ELSE <<SubSeq(s, 1, i - 1)>> \o split(SubSeq(s, i + 1, Len(s)), sep)

(* sep.join(parts) *)
RECURSIVE join(_, _)
join(sep, parts) ==
    IF parts = <<>>
    THEN <<>>
    ELSE IF Len(parts) = 1
    THEN parts[1]
    ELSE parts[1] \o sep \o join(sep, Tail(parts))

(* s.strip() *)
RECURSIVE strip(_)
strip(s) ==
    IF s = <<>>
    THEN s
    ELSE IF s[1] \in Whitespace
    THEN strip(Tail(s))
    ELSE IF s[Len(s)] \in Whitespace
    THEN strip(SubSeq(s, 1, Len(s) - 1))
    ELSE s

(* s.split(): the words between runs of whitespace. *)
RECURSIVE words(_)
words(s) ==
    LET t == strip(s)
    IN  IF t = <<>>
        THEN <<>>
        ELSE LET stops == {i \in DOMAIN t : t[i] \in Whitespace}
                 stop == IF stops = {}
                         THEN Len(t) + 1
                         ELSE CHOOSE i \in stops : \A j \in stops : i <= j
             IN  <<SubSeq(t, 1, stop - 1)>> \o words(SubSeq(t, stop, Len(t)))

(* s.replace('-', '_') *)
replace_dash(s) == [i \in DOMAIN s |-> IF s[i] = "-" THEN "_" ELSE s[i]]

(* The loop `for i, s in enumerate(doc[start:])`: the value of end at the *)
(* break, -1 when the loop ends with end unbound.                         *)
RECURSIVE closing_parenthesis(_, _, _)
closing_parenthesis(document, position, count) ==
    IF position >= Len(document)
    THEN -1
    ELSE LET s == document[position + 1]
             counted == IF s = "(" THEN count + 1
                        ELSE IF s = ")" THEN count - 1
                        ELSE count
         IN  IF counted = 0
             THEN position
             ELSE closing_parenthesis(document, position + 1, counted)

(* Faulty variant: an argument keeps its text whether it has a default or not. *)
change_options_unchanged(group) == group

(* change_options(m) on m.group(1) *)
change_options(group) ==
    LET args == split(group, ",")
    IN  join(<<",">>,
             [i \in DOMAIN args |->
                 IF args[i] # <<>> /\ \A k \in DOMAIN args[i] : args[i][k] # "="
                 THEN args[i] \o <<"=", "N", "o", "n", "e">>
                 ELSE args[i]])

(* Where ` ?\[([^\[\]]+)\]` matches at position p of s (counted from 1):  *)
(* the positions of its brackets, <<0, 0>> without a match.                *)
bracket_match(s, p) ==
    LET open == IF s[p] = " " /\ p < Len(s) /\ s[p + 1] = "[" THEN p + 1
                ELSE IF s[p] = "[" THEN p
                ELSE 0
        brackets == {i \in (open + 1)..Len(s) : s[i] \in {"[", "]"}}
        close == IF brackets = {}
                 THEN 0
                 ELSE CHOOSE i \in brackets : \A j \in brackets : i <= j
    IN  IF open # 0 /\ close > open + 1 /\ s[close] = "]"
        THEN <<open, close>>
        ELSE <<0, 0>>

(* re.subn(r' ?\[([^\[\]]+)\]', change_options, param_str) from position  *)
(* p on: the new text and the number of replacements.                      *)
RECURSIVE subn(_, _)
subn(s, p) ==
    IF p > Len(s)
    THEN [text |-> <<>>, changes |-> 0]
    ELSE LET m == bracket_match(s, p)
         IN  IF m[1] # 0
             THEN LET rest == subn(s, m[2] + 1)
                  IN  [text |-> change_options(SubSeq(s, m[1] + 1, m[2] - 1))
                                    \o rest.text,
                       changes |-> rest.changes + 1]
             ELSE LET rest == subn(s, p + 1)
                  IN  [text |-> <<s[p]>> \o rest.text, changes |-> rest.changes]

(* while True: param_str, changes = re.subn(...); if changes == 0: break *)
RECURSIVE strip_brackets(_)
strip_brackets(param_str) ==
    LET r == subn(param_str, 1)
    IN  IF r.changes = 0 THEN r.text ELSE strip_brackets(r.text)

(* re.search(u'-[>-]* ', window).end(), 0 where the search gives None. *)
arrow_end(window) ==
    LET ends == {q \in DOMAIN window :
                    /\ window[q] = " "
                    /\ \E p \in 1..(q - 1) :
                          /\ window[p] = "-"
                          /\ \A k \in (p + 1)..(q - 1) : window[k] \in {">", "-"}}
    IN  IF ends = {} THEN 0 ELSE CHOOSE q \in ends : \A e \in ends : q <= e

(* pattern.match(doc, index) for r'(,\n|[^\n-])+': the position where the *)
(* match ends, index itself where there is no match (None).                *)
RECURSIVE hint_end(_, _)
hint_end(document, position) ==
    IF position >= Len(document)
    THEN position
    ELSE IF /\ document[position + 1] = ","
            /\ position + 1 < Len(document)
            /\ document[position + 2] = "\n"
    THEN hint_end(document, position + 2)
    ELSE IF document[position + 1] \notin {"\n", "-"}
    THEN hint_end(document, position + 1)
    ELSE position

(* re.sub of the pattern '[nN]ew ' and the rest of the line: the rest of  *)
(* the line followed by '()' each time.                                    *)
RECURSIVE sub_new(_)
sub_new(s) ==
    IF s = <<>>
    THEN s
    ELSE IF Len(s) >= 4 /\ s[1] \in {"n", "N"} /\ SubSeq(s, 2, 4) = <<"e", "w", " ">>
    THEN LET rest == SubSeq(s, 5, Len(s))
             line == index_of(rest, "\n")
             stop == IF line = 0 THEN Len(rest) ELSE line - 1
         IN  SubSeq(rest, 1, stop) \o <<"(", ")">>
                 \o sub_new(SubSeq(rest, stop + 1, Len(rest)))
    ELSE <<s[1]>> \o sub_new(Tail(s))

(* _parse_function_doc(doc).  raised is "" when the function returns. *)
_parse_function_doc(document) ==
    LET start == index_of(document, "(") - 1
        closed == IF start < 0 THEN -1
                  ELSE closing_parenthesis(document, start, 0)
        end == IF closed < 0 THEN 0 ELSE closed
        param_str == IF closed < 0
                     THEN <<>>
                     ELSE strip_brackets(SubSeq(document, start + 2, end))
        r == arrow_end(SubSeq(document, end + 1,
                              IF end + 7 < Len(document) THEN end + 7
                              ELSE Len(document)))
        index == end + r
        stop == hint_end(document, index)
        ret_str == sub_new(strip(SubSeq(document, index + 1, stop)))
    IN  IF r # 0 /\ stop = index
        THEN [raised |-> "AttributeError", param_str |-> <<>>, ret |-> <<>>]
        ELSE [raised |-> "",
              param_str |-> replace_dash(param_str),
              ret |-> IF r = 0 THEN <<>> ELSE docstr_defaults_get(ret_str)]

(* The fragments of the text inside a parenthesis group. *)
ParamFragments ==
    {<<"a">>, <<"[", "b">>, <<"[">>, <<"]">>, <<" ">>, <<",", "c">>,
     <<"=", "1">>, <<"-">>, <<"(">>, <<")">>}

(* What a docstring begins with, and the fragments of what follows. *)
Groups == {<<>>, <<"f", "(", ")">>, <<"f", "(", "a">>}

ReturnFragments ==
    {<<" ", "-", ">">>, <<"-">>, <<" ">>, <<"\n">>, <<",">>, <<"a">>,
     <<"s", "t", "r", "i", "n", "g">>, <<"N", "e", "w", " ">>}

RECURSIVE Flatten(_)
Flatten(parts) ==
    IF parts = <<>> THEN <<>> ELSE Head(parts) \o Flatten(Tail(parts))

Texts(fragments) ==
    {Flatten(parts) : parts \in UNION {[1..n -> fragments] : n \in 0..MaxParts}}

ParamDocs ==
    {<<"f", "(">> \o text \o close :
        text \in Texts(ParamFragments), close \in {<<>>, <<")">>}}

ReturnDocs ==
    {group \o text : group \in Groups, text \in Texts(ReturnFragments)}

(* py__doc__() of the handle: a docstring, or None. *)
Docstrings ==
    {[none |-> FALSE, text |-> t] : t \in ParamDocs \cup ReturnDocs}
        \cup {[none |-> TRUE, text |-> <<>>]}

(* CompiledObject._parse_function_doc *)
CompiledObject_parse_function_doc(py__doc__) ==
    IF py__doc__.none
    THEN [raised |-> "", param_str |-> <<>>, ret |-> <<>>]
    ELSE _parse_function_doc(py__doc__.text)

(* p.partition('=') *)
partition(p) ==
    LET i == index_of(p, "=")
    IN  IF i = 0
        THEN [name |-> p, default |-> <<>>]
        ELSE [name |-> SubSeq(p, 1, i - 1), default |-> SubSeq(p, i + 1, Len(p))]

(* UnresolvableParamName(self, name, default) *)
UnresolvableParam(string_name, default) ==
    [default |-> default] @@ UnresolvableParamName(string_name)

SignatureParamName(signature_param) ==
    [cls |-> "SignatureParamName", parent_context |-> "builtins",
     string_name |-> signature_param]

(* What handle.get_signature_params() does: raises ValueError or returns  *)
(* the parameters of the signature.                                        *)
Signatures ==
    {[raises |-> TRUE, params |-> <<>>], [raises |-> FALSE, params |-> << <<"x">> >>]}

(* CompiledObject.get_param_names, as the list to_list makes of it. *)
get_param_names(py__doc__, signature, ismethoddescriptor) ==
    IF ~signature.raises
    THEN [raised |-> "",
          names |-> [i \in DOMAIN signature.params |->
                        SignatureParamName(signature.params[i])]]
    ELSE LET parsed == CompiledObject_parse_function_doc(py__doc__)
             split_tokens == split(parsed.param_str, ",")
             tokens == IF ismethoddescriptor
                       THEN <<<<"s", "e", "l", "f">>>> \o split_tokens
                       ELSE split_tokens
         IN  IF parsed.raised # ""
             THEN [raised |-> parsed.raised, names |-> <<>>]
             ELSE [raised |-> "",
                   names |-> [i \in DOMAIN tokens |->
                                 LET p == partition(strip(tokens[i]))
                                 IN  UnresolvableParam(p.name, p.default)]]

DocInit ==
    /\ PrecedenceIdle /\ ConversionIdle /\ FilterIdle /\ CacheIdle
    /\ NamesIdle /\ AttributeIdle /\ ObjectIdle /\ ApiIdle
    /\ doc \in Docstrings
    /\ doc_call = <<>>
    /\ doc_result = <<>>

(* _parse_function_doc(doc) on a docstring. *)
ParseFunctionDoc ==
    /\ doc_call = <<>>
    /\ ~doc.none
    /\ doc_call' = <<"_parse_function_doc">>
    /\ doc_result' = _parse_function_doc(doc.text)
    /\ UNCHANGED doc
    /\ UNCHANGED <<precedenceVars, conversionVars, filterVars, cacheVars,
                   nameVars, attributeVars, objectVars, apiVars>>

GetParamNames ==
    /\ doc_call = <<>>
    /\ \E signature \in Signatures, ismethoddescriptor \in BOOLEAN :
          /\ doc_call' = <<"get_param_names", signature, ismethoddescriptor>>
          /\ doc_result' = get_param_names(doc, signature, ismethoddescriptor)
    /\ UNCHANGED doc
    /\ UNCHANGED <<precedenceVars, conversionVars, filterVars, cacheVars,
                   nameVars, attributeVars, objectVars, apiVars>>

DocNext == ParseFunctionDoc \/ GetParamNames

SpecDoc == DocInit /\ [][DocNext]_vars

DocCalled(function) == doc_call # <<>> /\ doc_call[1] = function

(* The text strictly inside the first balanced parenthesis group of a     *)
(* text: from its first '(' to the first position where as many ')' as    *)
(* '(' have been read.  closed tells whether there is such a group.       *)
FirstGroup(text) ==
    LET opens == {i \in DOMAIN text : text[i] = "("}
        first == CHOOSE i \in opens : \A j \in opens : i <= j
        Count(ch, hi) == Cardinality({k \in first..hi : text[k] = ch})
        closes == {j \in DOMAIN text :
                      j > first /\ Count("(", j) = Count(")", j)}
        last == CHOOSE j \in closes : \A k \in closes : j <= k
    IN  IF opens = {} \/ closes = {}
        THEN [closed |-> FALSE, inside |-> <<>>, at |-> 0]
        ELSE [closed |-> TRUE, inside |-> SubSeq(text, first + 1, last - 1),
              at |-> last]

(* The '[x]' segments of a text with x not empty and free of brackets. *)
Segments(text) ==
    {s \in (DOMAIN text) \X (DOMAIN text) :
        /\ text[s[1]] = "[" /\ text[s[2]] = "]" /\ s[2] > s[1] + 1
        /\ \A k \in (s[1] + 1)..(s[2] - 1) : text[k] \notin {"[", "]"}}

(* The arguments of x, each one that is not empty and has no '=' followed *)
(* by '=None'.                                                             *)
WithDefaults(x) ==
    LET args == split(x, ",")
        HasDefault(a) == \E k \in DOMAIN a : a[k] = "="
    IN  join(<<",">>,
             [i \in DOMAIN args |->
                 IF args[i] = <<>> \/ HasDefault(args[i])
                 THEN args[i]
                 ELSE args[i] \o <<"=", "N", "o", "n", "e">>])

(* Every segment of the text rewritten; with_space takes one space        *)
(* directly before the '[' of a segment away with it.                      *)
RewriteSegments(text, with_space) ==
    LET segments == Segments(text)
        Piece(i) ==
            IF \E s \in segments : s[1] = i
            THEN LET s == CHOOSE t \in segments : t[1] = i
                 IN  WithDefaults(SubSeq(text, s[1] + 1, s[2] - 1))
            ELSE IF \E s \in segments : s[1] < i /\ i <= s[2]
            THEN <<>>
            ELSE IF /\ with_space /\ text[i] = " "
                    /\ \E s \in segments : s[1] = i + 1
            THEN <<>>
            ELSE <<text[i]>>
    IN  Flatten([i \in DOMAIN text |-> Piece(i)])

(* The segments rewritten innermost first until none remains. *)
RECURSIVE Rewritten(_, _)
Rewritten(text, with_space) ==
    IF Segments(text) = {}
    THEN text
    ELSE Rewritten(RewriteSegments(text, with_space), with_space)

Underscored(text) == [i \in DOMAIN text |-> IF text[i] = "-" THEN "_" ELSE text[i]]

ExpectedParams(text, with_space) ==
    LET group == FirstGroup(text)
    IN  IF group.closed
        THEN Underscored(Rewritten(group.inside, with_space))
        ELSE <<>>

ArrowIn(text, from) ==
    LET window == {i \in DOMAIN text : from <= i /\ i <= from + 6}
        arrows == {s \in window \X window :
                      /\ s[1] < s[2]
                      /\ text[s[1]] = "-" /\ text[s[2]] = " "
                      /\ \A k \in (s[1] + 1)..(s[2] - 1) : text[k] \in {">", "-"}}
        first == CHOOSE s \in arrows :
                     \A t \in arrows : s[1] < t[1] \/ (s[1] = t[1] /\ s[2] <= t[2])
    IN  IF arrows = {} THEN 0 ELSE first[2]

(* The text after position `after` up to the next newline or '-'. *)
UpToStop(text, after) ==
    LET stops == {i \in DOMAIN text : i > after /\ text[i] \in {"\n", "-"}}
        stop == IF stops = {} THEN Len(text) + 1
                ELSE CHOOSE i \in stops : \A j \in stops : i <= j
    IN  SubSeq(text, after + 1, stop - 1)

Trimmed(text) ==
    LET kept == {i \in DOMAIN text : text[i] \notin Whitespace}
        lo == CHOOSE i \in kept : \A j \in kept : i <= j
        hi == CHOOSE i \in kept : \A j \in kept : j <= i
    IN  IF kept = {} THEN <<>> ELSE SubSeq(text, lo, hi)

(* 'New X' and 'new X' rewritten to 'X()'. *)
Renewed(text) ==
    LET news == {i \in DOMAIN text :
                    /\ i + 3 <= Len(text)
                    /\ text[i] \in {"n", "N"}
                    /\ SubSeq(text, i + 1, i + 3) = <<"e", "w", " ">>}
        at == CHOOSE i \in news : \A j \in news : i <= j
    IN  IF news = {}
        THEN text
        ELSE SubSeq(text, 1, at - 1) \o SubSeq(text, at + 4, Len(text))
                 \o <<"(", ")">>

Synonym(text) ==
    IF text = <<"f", "l", "o", "a", "t", "i", "n", "g", " ", "p", "o", "i", "n", "t", " ", "n", "u", "m", "b", "e", "r">>
    THEN <<"f", "l", "o", "a", "t">>
    ELSE IF text = <<"c", "h", "a", "r", "a", "c", "t", "e", "r">>
    THEN <<"s", "t", "r">>
    ELSE IF text = <<"i", "n", "t", "e", "g", "e", "r">>
    THEN <<"i", "n", "t">>
    ELSE IF text = <<"d", "i", "c", "t", "i", "o", "n", "a", "r", "y">>
    THEN <<"d", "i", "c", "t">>
    ELSE IF text = <<"s", "t", "r", "i", "n", "g">>
    THEN <<"s", "t", "r">>
    ELSE text

ExpectedHint(text) ==
    LET group == FirstGroup(text)
        from == IF group.closed THEN group.at ELSE 1
        arrow == ArrowIn(text, from)
    IN  IF arrow = 0
        THEN <<>>
        ELSE Synonym(Renewed(Trimmed(UpToStop(text, arrow))))

(* C25: the return hint is the text after an arrow that lies within the   *)
(* 7 characters from the closing parenthesis (from the start of the text   *)
(* without a group) up to the next newline or '-', stripped, 'New X'       *)
(* rewritten to 'X()' and mapped through the synonym table; it is empty    *)
(* without such an arrow.                                                  *)
C25_ReturnHint ==
    DocCalled("_parse_function_doc") =>
        /\ doc_result.raised = ""
        /\ doc_result.ret = ExpectedHint(doc.text)

(* C28: _parse_function_doc returns a pair for every docstring. *)
C28_Total ==
    DocCalled("_parse_function_doc") => doc_result.raised = ""

(* C29: without a structured signature get_param_names yields one         *)
(* unresolvable parameter per comma-separated parameter of the group, in   *)
(* order, after 'self' for a method descriptor, split into name and        *)
(* default at the first '='; without a docstring or with an empty group    *)
(* it yields no parameter but that 'self', and never one whose name is     *)
(* empty.                                                                  *)
C29_ParamNames ==
    DocCalled("get_param_names") /\ doc_call[2].raises =>
        LET own == IF doc_call[3] THEN <<<<"s", "e", "l", "f">>>> ELSE <<>>
            group == IF doc.none THEN <<>> ELSE ExpectedParams(doc.text, TRUE)
            params == IF group = <<>> THEN <<>> ELSE split(group, ",")
            Text(n) == IF n.default = <<>>
                       THEN {n.string_name, n.string_name \o <<"=">>}
                       ELSE {n.string_name \o <<"=">> \o n.default}
        IN  /\ doc_result.raised = ""
            /\ Len(doc_result.names) = Len(own) + Len(params)
            /\ \A i \in DOMAIN doc_result.names :
                  /\ doc_result.names[i].cls = "UnresolvableParamName"
                  /\ doc_result.names[i].string_name # <<>>
                  /\ \A k \in DOMAIN doc_result.names[i].string_name :
                        doc_result.names[i].string_name[k] # "="
                  /\ Trimmed((own \o params)[i]) \in Text(doc_result.names[i])

(***************************************************************************)
(* The subscript, iteration and call operations of CompiledObject          *)
(* (src/jedi/evaluate/compiled/context.py).  A behaviour is one operation  *)
(* on one object; compiled_handle is what the object's access handle       *)
(* reports, drawn in ObjectInit.                                           *)
(***************************************************************************)

(* Longest list of access paths a handle reports. *)
MaxItems == 2

(* A list the handle may decline to give (None): absent, or its paths. *)
AbsentList == [absent |-> TRUE, paths |-> <<>>]

KnownLists ==
    {[absent |-> FALSE, paths |-> l] :
        l \in UNION {[1..n -> Accesses] : n \in 0..MaxItems}}

GetitemErrors == {"IndexError", "KeyError", "TypeError"}

(* What handle.py__simple_getitem__(index) does: raises, returns None or  *)
(* returns an access path.                                                 *)
SimpleGetitemReports ==
    {[does |-> "raise", value |-> e] : e \in GetitemErrors}
        \cup {[does |-> "return", value |-> "None"]}
        \cup {[does |-> "return", value |-> a] : a \in Accesses}

(* The names the builtins module has among the words of the hints. *)
BuiltinNames == {<<"i", "n", "t">>, <<"s", "t", "r">>}

(* The docstrings of the objects called. *)
CallDocs ==
    {[none |-> TRUE, text |-> <<>>],
     [none |-> FALSE, text |-> <<"f", "(", ")">>],
     [none |-> FALSE, text |-> <<"f", "(", ")", " ", "-", ">", " ", "i", "n", "t">>],
     [none |-> FALSE, text |-> <<"f", "(", ")", " ", "-", ">", " ", "f", "o", "o", " ", "i", "n", "t">>],
     [none |-> FALSE, text |-> <<"f", "(", ")", " ", "-", ">", " ", "s", "t", "r", "i", "n", "g">>],
     [none |-> FALSE, text |-> <<"f", "(", ")", " ", "-", ">", " ", "\n">>]}

(* Lazy contexts of the generic iteration protocol, Context.py__iter__. *)
GenericElement == [cls |-> "LazyContext", of |-> "generic"]

ArgumentValues == {"args1", "args2"}

PlainHandle ==
    [name |-> "obj",
     getitem_attribute |-> TRUE, simple_getitem |-> [does |-> "return", value |-> "None"],
     getitem_all_values |-> AbsentList,
     has_iter |-> FALSE, generic_iter |-> <<>>, iter_list |-> AbsentList,
     call_attribute |-> FALSE, is_class |-> FALSE, api_type |-> "instance",
     py__doc__ |-> [none |-> TRUE, text |-> <<>>], docstring_types |-> {}]

(* The handles drawn: each varies the reports one operation reads. *)
SubscriptHandles ==
    {[PlainHandle EXCEPT !.getitem_attribute = g, !.simple_getitem = r,
                         !.getitem_all_values = l] :
        g \in BOOLEAN, r \in SimpleGetitemReports,
        l \in KnownLists \cup {AbsentList}}

IterHandles ==
    {[PlainHandle EXCEPT !.has_iter = h, !.generic_iter = g, !.iter_list = l] :
        h \in BOOLEAN, g \in {<<>>, <<GenericElement>>},
        l \in KnownLists \cup {AbsentList}}

CallHandles ==
    {[PlainHandle EXCEPT !.call_attribute = c, !.is_class = k, !.api_type = t,
                         !.py__doc__ = w, !.docstring_types = d] :
        c \in BOOLEAN, k \in BOOLEAN, t \in {"function", "instance"},
        w \in CallDocs, d \in SUBSET {object_of("B")}}

CompiledHandles == SubscriptHandles \cup IterHandles \cup CallHandles

(* helpers.reraise_getitem_errors(IndexError, KeyError, TypeError): an    *)
(* error of these classes leaves the block as SimpleGetItemNotFound.       *)
reraise_getitem_errors(report) ==
    IF report.does = "raise" /\ report.value \in GetitemErrors
    THEN [does |-> "raise", value |-> "SimpleGetItemNotFound"]
    ELSE report

(* Faulty variant: the handle's error leaves py__simple_getitem__ as it is. *)
py__simple_getitem__propagating(handle) ==
    IF ~handle.getitem_attribute
    THEN [does |-> "raise", value |-> "AttributeError", contexts |-> {}]
    ELSE LET access == handle.simple_getitem
         IN  IF access.does = "raise"
             THEN [does |-> "raise", value |-> access.value, contexts |-> {}]
             ELSE IF access.value = "None"
             THEN [does |-> "return", value |-> "", contexts |-> NO_CONTEXTS]
             ELSE [does |-> "return", value |-> "",
                   contexts |-> {object_of(access.value)}]

(* CompiledObject.py__simple_getitem__, under CheckAttribute(__getitem__). *)
py__simple_getitem__(handle) ==
    IF ~handle.getitem_attribute
    THEN [does |-> "raise", value |-> "AttributeError", contexts |-> {}]
    ELSE LET access == reraise_getitem_errors(handle.simple_getitem)
         IN  IF access.does = "raise"
             THEN [does |-> "raise", value |-> access.value, contexts |-> {}]
             ELSE IF access.value = "None"
             THEN [does |-> "return", value |-> "", contexts |-> NO_CONTEXTS]
             ELSE [does |-> "return", value |-> "",
                   contexts |-> {object_of(access.value)}]

(* CompiledObject.py__getitem__: "super" is the return of the default     *)
(* Context.py__getitem__.                                                  *)
py__getitem__(handle) ==
    LET all_access_paths == handle.getitem_all_values
    IN  IF all_access_paths.absent
        THEN [does |-> "super", value |-> "", contexts |-> {}]
        ELSE [does |-> "return", value |-> "",
              contexts |-> {object_of(all_access_paths.paths[i]) :
                               i \in DOMAIN all_access_paths.paths}]

LazyKnownContext(context) == [cls |-> "LazyKnownContext", of |-> context]

(* CompiledObject.py__iter__: the elements yielded, in order.  The loop   *)
(* over the generic protocol is not followed by a return.                  *)
py__iter__(handle) ==
    LET generic == IF ~handle.has_iter THEN handle.generic_iter ELSE <<>>
        access_path_list == handle.iter_list
    IN  IF access_path_list.absent
        THEN generic
        ELSE generic \o [i \in DOMAIN access_path_list.paths |->
                            LazyKnownContext(object_of(access_path_list.paths[i]))]

(* evaluator.execute(builtin_from_name(name), params): calling a class of *)
(* the builtins module makes an instance of it.                            *)
execute_builtin(word, params) == {CompiledInstance(word, params)}

(* CompiledObject._execute_function: the contexts yielded, or the error *)
(* that ends the generator.                                               *)
_execute_function(handle, params) ==
    IF handle.api_type # "function"
    THEN [raised |-> "", contexts |-> {}]
    ELSE LET parsed == CompiledObject_parse_function_doc(handle.py__doc__)
             names_of_hint == words(parsed.ret)
         IN  IF parsed.raised # ""
             THEN [raised |-> parsed.raised, contexts |-> {}]
             ELSE [raised |-> "",
                   contexts |->
                       UNION {execute_builtin(names_of_hint[i], params) :
                                 i \in {j \in DOMAIN names_of_hint :
                                           names_of_hint[j] \in BuiltinNames}}
                           \cup handle.docstring_types]

(* CompiledObject.py__call__: "super" is the return of the default        *)
(* Context.py__call__.                                                     *)
py__call__(handle, arguments) ==
    IF ~handle.call_attribute
    THEN [does |-> "super", value |-> "", contexts |-> {}]
    ELSE IF handle.is_class
    THEN [does |-> "return", value |-> "",
          contexts |-> {CompiledInstance(handle.name, arguments)}]
    ELSE LET executed == _execute_function(handle, arguments)
         IN  IF executed.raised # ""
             THEN [does |-> "raise", value |-> executed.raised, contexts |-> {}]
             ELSE [does |-> "return", value |-> "",
                   contexts |-> executed.contexts]

ObjectInit ==
    /\ PrecedenceIdle /\ ConversionIdle /\ FilterIdle /\ CacheIdle
    /\ NamesIdle /\ AttributeIdle /\ DocIdle /\ ApiIdle
    /\ compiled_handle \in CompiledHandles
    /\ compiled_call = <<>>
    /\ compiled_result = <<>>

PySimpleGetitem ==
    /\ compiled_call = <<>>
    /\ compiled_call' = <<"py__simple_getitem__">>
    /\ compiled_result' = py__simple_getitem__(compiled_handle)
    /\ UNCHANGED compiled_handle
    /\ UNCHANGED <<precedenceVars, conversionVars, filterVars, cacheVars,
                   nameVars, attributeVars, docVars, apiVars>>

PyGetitem ==
    /\ compiled_call = <<>>
    /\ compiled_call' = <<"py__getitem__">>
    /\ compiled_result' = py__getitem__(compiled_handle)
    /\ UNCHANGED compiled_handle
    /\ UNCHANGED <<precedenceVars, conversionVars, filterVars, cacheVars,
                   nameVars, attributeVars, docVars, apiVars>>

PyIter ==
    /\ compiled_call = <<>>
    /\ compiled_call' = <<"py__iter__">>
    /\ compiled_result' = py__iter__(compiled_handle)
    /\ UNCHANGED compiled_handle
    /\ UNCHANGED <<precedenceVars, conversionVars, filterVars, cacheVars,
                   nameVars, attributeVars, docVars, apiVars>>

PyCall ==
    /\ compiled_call = <<>>
    /\ \E arguments \in ArgumentValues :
          /\ compiled_call' = <<"py__call__", arguments>>
          /\ compiled_result' = py__call__(compiled_handle, arguments)
    /\ UNCHANGED compiled_handle
    /\ UNCHANGED <<precedenceVars, conversionVars, filterVars, cacheVars,
                   nameVars, attributeVars, docVars, apiVars>>

ObjectNext == PySimpleGetitem \/ PyGetitem \/ PyIter \/ PyCall

SpecObject == ObjectInit /\ [][ObjectNext]_vars

ObjectCalled(operation) ==
    compiled_call # <<>> /\ compiled_call[1] = operation

(* C21: py__simple_getitem__ never lets an IndexError, KeyError or        *)
(* TypeError of the handle out: it leaves as the 'no result' signal        *)
(* SimpleGetItemNotFound; a handle that returns no access gives the empty  *)
(* set, any other access exactly the one context made from it.             *)
(* py__getitem__ returns one context per item the handle knows and takes   *)
(* the default inference when the handle knows none.                       *)
C21_Getitem ==
    /\ ObjectCalled("py__simple_getitem__") /\ compiled_handle.getitem_attribute =>
          LET report == compiled_handle.simple_getitem
          IN  /\ compiled_result.value \notin GetitemErrors
              /\ report.does = "raise" =>
                    /\ compiled_result.does = "raise"
                    /\ compiled_result.value = "SimpleGetItemNotFound"
              /\ report = [does |-> "return", value |-> "None"] =>
                    /\ compiled_result.does = "return"
                    /\ compiled_result.contexts = {}
              /\ report.does = "return" /\ report.value \in Accesses =>
                    /\ compiled_result.does = "return"
                    /\ Cardinality(compiled_result.contexts) = 1
                    /\ \A c \in compiled_result.contexts :
                          c.access = report.value
    /\ ObjectCalled("py__getitem__") =>
          LET known == compiled_handle.getitem_all_values
          IN  /\ known.absent <=> compiled_result.does = "super"
              /\ ~known.absent =>
                    /\ compiled_result.does = "return"
                    /\ \A i \in DOMAIN known.paths :
                          \E c \in compiled_result.contexts :
                              c.access = known.paths[i]
                    /\ \A c \in compiled_result.contexts :
                          \E i \in DOMAIN known.paths :
                              c.access = known.paths[i]

C21_Witness ==
    /\ ObjectCalled("py__simple_getitem__")
    /\ compiled_handle.getitem_attribute
    /\ compiled_handle.simple_getitem = [does |-> "raise", value |-> "KeyError"]
    /\ compiled_result.value = "SimpleGetItemNotFound"

C23_Call ==
    ObjectCalled("py__call__") =>
        LET h == compiled_handle
            arguments == compiled_call[2]
            hint == IF h.py__doc__.none THEN <<>>
                    ELSE ExpectedHint(h.py__doc__.text)
            hinted == {w \in BuiltinNames :
                          \E i \in DOMAIN words(hint) : words(hint)[i] = w}
        IN  /\ ~h.call_attribute <=> compiled_result.does = "super"
            /\ h.call_attribute => compiled_result.does = "return"
            /\ h.call_attribute /\ h.is_class =>
                  /\ Cardinality(compiled_result.contexts) = 1
                  /\ \A c \in compiled_result.contexts :
                        /\ c.cls = "CompiledInstance"
                        /\ c.name = h.name
                        /\ c.site = arguments
            /\ h.call_attribute /\ ~h.is_class /\ h.api_type # "function" =>
                  compiled_result.contexts = {}
            /\ h.call_attribute /\ ~h.is_class /\ h.api_type = "function" =>
                  /\ \A c \in compiled_result.contexts :
                        \/ c \in h.docstring_types
                        \/ /\ c.cls = "CompiledInstance"
                           /\ c.name \in hinted
                           /\ c.site = arguments
                  /\ h.docstring_types \subseteq compiled_result.contexts
                  /\ \A w \in hinted :
                        \E c \in compiled_result.contexts :
                            c.cls = "CompiledInstance" /\ c.name = w

(***************************************************************************)
(* Completion, CallSignature and Definition of the API                     *)
(* (src/jedi/api/classes.py).  A behaviour reads one property of one       *)
(* object drawn in ApiInit.                                                *)
(***************************************************************************)

(* Longest parser stack of a completion. *)
MaxStack == 2

(* Largest like_name_length. *)
MaxLike == 4

(* Most parameters of a call signature. *)
MaxParams == 2

(* Largest index of the argument under the cursor. *)
MaxIndex == 3

Nonterminals == {"trailer", "argument", "atom"}

ApiTypes == {"function", "param", "module", "instance"}

(* The completions drawn.  resolve tells that the name is a SubModuleName *)
(* or the definition of an import_from; inferred is what infer() yields.   *)
Completions ==
    [cls : {"Completion"},
     string_name : {<<"a", "b", "c">>, <<"p", "a", "r", "a", "m">>},
     api_type : ApiTypes,
     resolve : BOOLEAN,
     inferred : {<<>>, <<"function">>, <<"class">>},
     no_stack : BOOLEAN,
     stack : UNION {[1..n -> Nonterminals] : n \in 0..MaxStack},
     like_name_length : 0..MaxLike,
     add_bracket_after_function : BOOLEAN]

(* BaseDefinition.type *)
type(d) ==
    IF d.resolve /\ d.inferred # <<>>
    THEN d.inferred[1]
    ELSE d.api_type

(* Faulty variant: the like name is cut off whichever property is read. *)
_complete_always_cut(d, like_name) ==
    LET bracket == IF d.add_bracket_after_function /\ type(d) = "function"
                   THEN <<"(">> ELSE <<>>
        equals == IF /\ d.api_type = "param" /\ ~d.no_stack
                     /\ \E i \in DOMAIN d.stack : d.stack[i] = "trailer"
                     /\ \A i \in DOMAIN d.stack : d.stack[i] # "argument"
                  THEN <<"=">> ELSE <<>>
    IN  SubSeq(d.string_name, d.like_name_length + 1, Len(d.string_name))
            \o bracket \o equals

(* Completion._complete(like_name) *)
_complete(d, like_name) ==
    LET bracket == IF d.add_bracket_after_function /\ type(d) = "function"
                   THEN <<"(">> ELSE <<>>
        equals == IF /\ d.api_type = "param" /\ ~d.no_stack
                     /\ \E i \in DOMAIN d.stack : d.stack[i] = "trailer"
                     /\ \A i \in DOMAIN d.stack : d.stack[i] # "argument"
                  THEN <<"=">> ELSE <<>>
        string_name == IF like_name
                       THEN SubSeq(d.string_name, d.like_name_length + 1,
                                   Len(d.string_name))
                       ELSE d.string_name
    IN  string_name \o bracket \o equals

(* Completion.complete *)
complete(d) == _complete(d, TRUE)

(* Completion.name_with_symbols *)
name_with_symbols(d) == _complete(d, FALSE)

(* The parameters of a signature: a name of source code has a tree_name   *)
(* and the star_count of its definition, any other name has neither.       *)
Params ==
    [string_name : {"a", "b"}, tree_name : {TRUE}, star_count : 0..2]
        \cup [string_name : {"a", "b"}, tree_name : {FALSE}, star_count : {0}]

(* The call signatures drawn; has_key_name is `_key_name_str is not None`. *)
CallSignatures ==
    [cls : {"CallSignature"},
     params : UNION {[1..n -> Params] : n \in 0..MaxParams},
     index : 0..MaxIndex,
     has_key_name : BOOLEAN,
     key_name_str : {"a", "k"}]

(* What a property returns: None, or a value. *)
ReturnNone == [none |-> TRUE, value |-> 0]

ReturnValue(v) == [none |-> FALSE, value |-> v]

(* The first position where Test holds, counted from 0; -1 without one. *)
FirstParam(params, Test(_)) ==
    LET found == {i \in DOMAIN params : Test(params[i])}
    IN  IF found = {} THEN -1
        ELSE (CHOOSE i \in found : \A j \in found : i <= j) - 1

(* Faulty variant: the positional index is returned as it was given. *)
index_as_given(d) == ReturnValue(d.index)

(* CallSignature.index *)
index(d) ==
    LET HasKeyName(param) == param.string_name = d.key_name_str
        IsStarArgs(param) == param.tree_name /\ param.star_count = 1
        named == FirstParam(d.params, HasKeyName)
        starred == FirstParam(d.params, IsStarArgs)
    IN  IF d.has_key_name
        THEN IF named >= 0
             THEN ReturnValue(named)
             ELSE IF /\ d.params # <<>>
                     /\ d.params[Len(d.params)].tree_name
                     /\ d.params[Len(d.params)].star_count = 2
             THEN ReturnValue(Len(d.params) - 1)
             ELSE ReturnNone
        ELSE IF d.index >= Len(d.params)
        THEN IF starred >= 0 THEN ReturnValue(starred) ELSE ReturnNone
        ELSE ReturnValue(d.index)

(* The module of a definition, as in_builtin_module tells them apart. *)
ModuleKinds == {"source", "compiled", "stub of source", "stub of compiled"}

(* The definitions drawn: line is 0 where start_pos is None. *)
Definitions ==
    [cls : {"Definition"},
     module : ModuleKinds,
     module_name : {<<"o", "s">>},
     description : {<<"d", "e", "f", " ", "f">>, <<"c", "l", "a", "s", "s", " ", "C">>},
     line : {0, 7, 12}]

(* BaseDefinition.in_builtin_module() *)
in_builtin_module(d) == d.module \in {"compiled", "stub of compiled"}

(* The truth value of the bound method self.in_builtin_module, which is   *)
(* read and not called: a method object is true.                           *)
bound_method_truth(d) == TRUE

RECURSIVE decimal(_)
decimal(n) ==
    LET digit == <<"0", "1", "2", "3", "4", "5", "6", "7", "8", "9">>[(n % 10) + 1]
    IN  IF n < 10 THEN <<digit>> ELSE decimal(n \div 10) \o <<digit>>

(* '%s' % self.line *)
format_line(line) ==
    IF line = 0 THEN <<"N", "o", "n", "e">> ELSE decimal(line)

(* Definition.desc_with_module *)
desc_with_module(d) ==
    LET position == IF bound_method_truth(d)
                    THEN <<>>
                    ELSE <<"@">> \o format_line(d.line)
    IN  d.module_name \o <<":">> \o d.description \o position

ApiInit ==
    /\ PrecedenceIdle /\ ConversionIdle /\ FilterIdle /\ CacheIdle
    /\ NamesIdle /\ AttributeIdle /\ ObjectIdle /\ DocIdle
    /\ definition \in Completions \cup CallSignatures \cup Definitions
    /\ api_call = <<>>
    /\ api_result = <<>>

Complete ==
    /\ api_call = <<>>
    /\ definition.cls = "Completion"
    /\ api_call' = <<"complete">>
    /\ api_result' = complete(definition)
    /\ UNCHANGED definition
    /\ UNCHANGED <<precedenceVars, conversionVars, filterVars, cacheVars,
                   nameVars, attributeVars, objectVars, docVars>>

NameWithSymbols ==
    /\ api_call = <<>>
    /\ definition.cls = "Completion"
    /\ api_call' = <<"name_with_symbols">>
    /\ api_result' = name_with_symbols(definition)
    /\ UNCHANGED definition
    /\ UNCHANGED <<precedenceVars, conversionVars, filterVars, cacheVars,
                   nameVars, attributeVars, objectVars, docVars>>

Index ==
    /\ api_call = <<>>
    /\ definition.cls = "CallSignature"
    /\ api_call' = <<"index">>
    /\ api_result' = index(definition)
    /\ UNCHANGED definition
    /\ UNCHANGED <<precedenceVars, conversionVars, filterVars, cacheVars,
                   nameVars, attributeVars, objectVars, docVars>>

DescWithModule ==
    /\ api_call = <<>>
    /\ definition.cls = "Definition"
    /\ api_call' = <<"desc_with_module">>
    /\ api_result' = desc_with_module(definition)
    /\ UNCHANGED definition
    /\ UNCHANGED <<precedenceVars, conversionVars, filterVars, cacheVars,
                   nameVars, attributeVars, objectVars, docVars>>

ApiNext == Complete \/ NameWithSymbols \/ Index \/ DescWithModule

SpecApi == ApiInit /\ [][ApiNext]_vars

ApiCalled(property) == api_call = <<property>>

(* The first n characters of a text, and the text without them. *)
Prefix(text, n) == SubSeq(text, 1, IF n < Len(text) THEN n ELSE Len(text))

Suffix(text, n) == SubSeq(text, n + 1, Len(text))

(* The symbols after the name of a completion. *)
Symbols(d) ==
    LET function == d.add_bracket_after_function /\ type(d) = "function"
        keyword == /\ d.api_type = "param" /\ ~d.no_stack
                   /\ "trailer" \in {d.stack[i] : i \in DOMAIN d.stack}
                   /\ "argument" \notin {d.stack[i] : i \in DOMAIN d.stack}
    IN  IF function /\ keyword THEN <<"(", "=">>
        ELSE IF function THEN <<"(">>
        ELSE IF keyword THEN <<"=">>
        ELSE <<>>

(* C26: complete is the name without its first like_name_length           *)
(* characters followed by the symbols of name_with_symbols, so that        *)
(* name_with_symbols is the first like_name_length characters of the name  *)
(* followed by complete; the symbols are '(' exactly when                  *)
(* add_bracket_after_function is on and the type is 'function', then '='   *)
(* exactly when the name is a param and the stack has a 'trailer' and no   *)
(* 'argument'.                                                             *)
C26_Complete ==
    LET d == definition
    IN  /\ ApiCalled("complete") =>
              /\ api_result = Suffix(d.string_name, d.like_name_length) \o Symbols(d)
              /\ name_with_symbols(d) = Prefix(d.string_name, d.like_name_length)
                                            \o api_result
        /\ ApiCalled("name_with_symbols") =>
              /\ api_result = d.string_name \o Symbols(d)
              /\ api_result = Prefix(d.string_name, d.like_name_length)
                                  \o complete(d)

C26_Witness ==
    /\ ApiCalled("complete")
    /\ definition.string_name = <<"p", "a", "r", "a", "m">>
    /\ definition.like_name_length = 3
    /\ api_result = <<"a", "m", "=">>

C30_DescWithModule ==
    ApiCalled("desc_with_module") =>
        LET d == definition
            head == d.module_name \o <<":">> \o d.description
        IN  IF in_builtin_module(d)
            THEN api_result = head
            ELSE api_result = head \o <<"@">> \o format_line(d.line)

====
